---- MODULE Spec2Model ----
(***************************************************************************)
(* State-machine model of the YinChroma pitch pipeline:                    *)
(*   - PitchDetector  (src/pitchhandler/pitchdetector.py): capture         *)
(*     callback, bounded queue, analysis thread(s), control operations;    *)
(*   - PitchAnalyzer  (src/pitch_analyzer.py): settings, band estimators;  *)
(*   - NoteStabilizer (src/pitchhandler/note_stabilizer.py).               *)
(*   - YinProcessor   (src/yin_processor.py): difference function, CMNDF,  *)
(*     threshold search, harmonic check, interpolation.                    *)
(* Spec         : the threaded detector (controller, callback, analysis); *)
(*                the analyzer is seen through an_dirty and an_epoch.     *)
(* FairSpec     : Spec plus the fairness the scheduler gives running code.*)
(* SpecFlood    : the detector under a backend that outruns the analysis. *)
(* SpecStab     : the NoteStabilizer alone, over a small input space.     *)
(* SpecAnalyzer : the PitchAnalyzer alone, over a small set of frames.    *)
(* SpecWindow   : one band's double buffer on sample values.             *)
(* SpecSmooth   : the cents smoothing of the NoteStabilizer alone.        *)
(* SpecYin      : YinProcessor.process alone, on sample values and lags.  *)
(***************************************************************************)
EXTENDS Integers, Sequences, FiniteSets, TLC

\* ------------------------------------------------------------------ bounds
MaxStarts == 2         \* sessions (successful passes of start_stream's reset)
MaxFrames == 1         \* frames captured per session under Spec
MaxFramesSinceAttack == 9  \* cap of frames_since_attack under SpecStab

\* ------------------------------------------------------- program constants
QueueMaxSize == 10     \* queue.Queue(maxsize=10)

Threads == 1..MaxStarts         \* the thread object created by session t
NoThread == 0                  \* analysis_thread is None
LockFree == NoThread           \* analysis_lock is not held
Controller == MaxStarts + 1    \* the thread making the control calls

RestartKeys == {"latency_mode", "instrument_type", "high_quality"}

\* ------------------------------------------------------------------- state
VARIABLES
    is_running,        \* PitchDetector._is_running
    stop_event,        \* PitchDetector.stop_event (threading.Event)
    stream,            \* PitchDetector.stream: "none" | "active" | "inactive"
    pa,                \* PitchDetector.pa is not None
    analysis_lock,     \* holder of analysis_lock: LockFree, a thread, Controller
    audio_queue,       \* PitchDetector.audio_queue: sequence of frames
    analysis_thread,   \* PitchDetector.analysis_thread (NoThread = None)
    tpc,               \* position of each analysis thread in _analysis_loop
    tframe,            \* raw_data held by each analysis thread (0 = none)
    tseen,             \* what process read when it began the frame
    cpc,               \* position of the controller thread
    cop,               \* control operation the controller is executing
    new_config,        \* argument of the update_settings call in progress
    was_running,       \* local of update_settings
    settings,          \* the settings dict shared by detector and analyzer
    target_frequencies,\* PitchAnalyzer.target_frequencies
    an_dirty,          \* analyzer windows/stabilizer touched since last reset
    an_epoch,          \* session for which the analyzer state was last reset
    epoch,             \* number of sessions started so far
    captured,          \* frames the backend delivered in this session
    cb_result,         \* outcome of the last capture callback
    stop_trace,        \* steps taken by the stop_stream call in progress/last
    start_ret,         \* what the last start_stream call gave its caller
    stab,              \* the NoteStabilizer instance (its fields)
    scall,             \* the last NoteStabilizer call: arguments and result
    an,                \* the PitchAnalyzer instance: estimators and windows
    acall,             \* the last PitchAnalyzer call: arguments and result
    band,              \* one band of the analyzer with its sample values
    ycall              \* one YinProcessor.process call: arguments and result

dvars == <<is_running, stop_event, stream, pa, analysis_lock, audio_queue,
           analysis_thread, tpc, tframe, tseen, cpc, cop, new_config,
           was_running, settings, target_frequencies, an_dirty, an_epoch,
           epoch, captured, cb_result, stop_trace, start_ret>>

\* the stabilizer
svars == <<stab, scall>>

\* the analyzer
avars == <<an, acall, band, ycall>>

vars == <<dvars, svars, avars>>

\* Updates the controller may send: key -> value (a partial settings dict).
ConfigUpdates ==
    { [k \in {"yin_threshold"} |-> 10],
      [k \in {"latency_mode"} |-> "fast"] }

TuningSets == {"standard", "dropD"}

NoConfig == [k \in {} |-> 0]

NoSeen == [settings |-> NoConfig, targets |-> ""]

Alive(t) == tpc[t] # "dead"

\* A frame is represented by the session that captured it; raw_data of a
\* thread that holds no frame is NoFrame.
NoFrame == NoThread

\* dict.update: keys of upd replace, the others keep their values.
Merge(old, upd) ==
    [k \in DOMAIN old |-> IF k \in DOMAIN upd THEN upd[k] ELSE old[k]]

NeedsRestart(upd) == \E k \in DOMAIN upd : k \in RestartKeys


\* ------------------------------------------------------------ NoteStabilizer
\* Numbers: frequencies in Hz, amplitudes in RMS units, confidences and
\* yin_threshold in hundredths (0.20 is 20), cents in cents; all integers.
MaxOf(a, b) == IF a > b THEN a ELSE b
MinOf(a, b) == IF a < b THEN a ELSE b

\* The dict.get defaults of update_config.
DefaultYinThreshold == 20
DefaultSmoothing == 5
HighConfidence == 10           \* confidence < 0.1

CfgGet(config, key, default) ==
    IF key \in DOMAIN config THEN config[key] ELSE default

\* max(1, min(10, int(config.get("smoothing", 5))))
SmoothingLen(config) ==
    MaxOf(1, MinOf(10, CfgGet(config, "smoothing", DefaultSmoothing)))

\* Variant of update_config that keeps the yin_threshold it has.
StabUpdateConfigKeepThreshold(st, config) ==
    [st EXCEPT !.maxlen = SmoothingLen(config),
               !.cents_history = <<>>]

\* Variant of update_config that resizes the cents history without
\* emptying it.
StabUpdateConfigKeepHistory(st, config) ==
    [st EXCEPT !.yin_threshold =
                   CfgGet(config, "yin_threshold", DefaultYinThreshold),
               !.maxlen = SmoothingLen(config),
               !.cents_history =
                   IF Len(st.cents_history) <= SmoothingLen(config)
                   THEN st.cents_history
                   ELSE SubSeq(st.cents_history,
                               Len(st.cents_history) - SmoothingLen(config) + 1,
                               Len(st.cents_history))]

\* NoteStabilizer.update_config: thresholds re-read, a new empty deque.
StabUpdateConfig(st, config) ==
    [st EXCEPT !.yin_threshold =
                   CfgGet(config, "yin_threshold", DefaultYinThreshold),
               !.maxlen = SmoothingLen(config),
               !.cents_history = <<>>]

\* NoteStabilizer.reset
StabReset(st) ==
    [st EXCEPT !.last_stable_freq = 0,
               !.prev_amplitude = 0,
               !.frames_since_attack = 0,
               !.consecutive_decay_frames = 0,
               !.last_valid_cents = 0,
               !.cents_history = <<>>]

\* NoteStabilizer.__init__: update_config(config); reset()
StabNew(config) ==
    StabReset(StabUpdateConfig(
        [yin_threshold |-> 0, maxlen |-> 1, last_stable_freq |-> 0,
         prev_amplitude |-> 0, frames_since_attack |-> 0,
         consecutive_decay_frames |-> 0, last_valid_cents |-> 0,
         cents_history |-> <<>>], config))

\* threshold_val = max(threshold_rms, 1.0) * 10.0
SilenceFloor(threshold_rms) == MaxOf(threshold_rms, 1) * 10

\* amplitude > self.prev_amplitude * 1.2 and amplitude > threshold_val
IsAttack(st, amplitude, threshold_rms) ==
    /\ 10 * amplitude > 12 * st.prev_amplitude
    /\ amplitude > SilenceFloor(threshold_rms)

\* is_same_note = 0.94 < raw_freq / last_stable_freq < 1.06
IsSameNote(raw_freq, last) ==
    /\ 94 * last < 100 * raw_freq
    /\ 100 * raw_freq < 106 * last

\* Variant of the bookkeeping that counts a frame of equal amplitude as
\* decay.
StabCountersDecayOnEqual(st, amplitude, threshold_rms) ==
    LET attack == IsAttack(st, amplitude, threshold_rms)
        decay  == IF 10 * amplitude > 12 * st.prev_amplitude
                  THEN (IF attack THEN 0 ELSE st.consecutive_decay_frames)
                  ELSE IF amplitude <= st.prev_amplitude
                       THEN st.consecutive_decay_frames + 1
                       ELSE st.consecutive_decay_frames
    IN [st EXCEPT !.frames_since_attack =
                      IF attack THEN 0 ELSE st.frames_since_attack + 1,
                  !.consecutive_decay_frames = decay,
                  !.prev_amplitude = amplitude]

\* The attack/decay bookkeeping at the head of process.
StabCounters(st, amplitude, threshold_rms) ==
    LET attack == IsAttack(st, amplitude, threshold_rms)
        decay  == IF 10 * amplitude > 12 * st.prev_amplitude
                  THEN (IF attack THEN 0 ELSE st.consecutive_decay_frames)
                  ELSE IF amplitude < st.prev_amplitude
                       THEN st.consecutive_decay_frames + 1
                       ELSE st.consecutive_decay_frames
    IN [st EXCEPT !.frames_since_attack =
                      IF attack THEN 0 ELSE st.frames_since_attack + 1,
                  !.consecutive_decay_frames = decay,
                  !.prev_amplitude = amplitude]

\* Variant of the jump guard without the deep-decay branch: every non-attack
\* frame is judged by the sustain rule.
JumpGuardNoDecayLock(s1, attack, raw_freq, confidence) ==
    IF s1.last_stable_freq > 0
    THEN IF attack
         THEN IF confidence < s1.yin_threshold
              THEN raw_freq ELSE s1.last_stable_freq
         ELSE IF confidence < s1.yin_threshold
                 /\ (IsSameNote(raw_freq, s1.last_stable_freq)
                     \/ confidence < HighConfidence)
              THEN raw_freq ELSE s1.last_stable_freq
    ELSE IF confidence < s1.yin_threshold
         THEN raw_freq ELSE s1.last_stable_freq

\* Variant of the jump guard that treats an attack like sustain: a far
\* frequency needs high confidence.
JumpGuardAttackAsSustain(s1, attack, raw_freq, confidence) ==
    IF s1.last_stable_freq > 0
    THEN IF s1.consecutive_decay_frames > 5 /\ ~attack
         THEN IF IsSameNote(raw_freq, s1.last_stable_freq)
                 /\ confidence < s1.yin_threshold
              THEN raw_freq ELSE s1.last_stable_freq
         ELSE IF confidence < s1.yin_threshold
                 /\ (IsSameNote(raw_freq, s1.last_stable_freq)
                     \/ confidence < HighConfidence)
              THEN raw_freq ELSE s1.last_stable_freq
    ELSE IF confidence < s1.yin_threshold
         THEN raw_freq ELSE s1.last_stable_freq

\* Variant of the jump guard whose sustain rule does not ask for a
\* confidence below yin_threshold.
JumpGuardSustainUngated(s1, attack, raw_freq, confidence) ==
    IF s1.last_stable_freq > 0
    THEN IF attack
         THEN IF confidence < s1.yin_threshold
              THEN raw_freq ELSE s1.last_stable_freq
         ELSE IF s1.consecutive_decay_frames > 5
              THEN IF IsSameNote(raw_freq, s1.last_stable_freq)
                      /\ confidence < s1.yin_threshold
                   THEN raw_freq ELSE s1.last_stable_freq
              ELSE IF \/ IsSameNote(raw_freq, s1.last_stable_freq)
                      \/ confidence < HighConfidence
                   THEN raw_freq ELSE s1.last_stable_freq
    ELSE IF confidence < s1.yin_threshold
         THEN raw_freq ELSE s1.last_stable_freq

\* Variant of the jump guard that takes the first estimate after silence
\* whatever its confidence.
JumpGuardFirstUngated(s1, attack, raw_freq, confidence) ==
    IF s1.last_stable_freq > 0
    THEN IF attack
         THEN IF confidence < s1.yin_threshold
              THEN raw_freq ELSE s1.last_stable_freq
         ELSE IF s1.consecutive_decay_frames > 5
              THEN IF IsSameNote(raw_freq, s1.last_stable_freq)
                      /\ confidence < s1.yin_threshold
                   THEN raw_freq ELSE s1.last_stable_freq
              ELSE IF confidence < s1.yin_threshold
                      /\ (IsSameNote(raw_freq, s1.last_stable_freq)
                          \/ confidence < HighConfidence)
                   THEN raw_freq ELSE s1.last_stable_freq
    ELSE raw_freq

\* The jump guard: the new last_stable_freq on a non-silent frame with
\* raw_freq > 0 (s1 is the state after the bookkeeping).
JumpGuard(s1, attack, raw_freq, confidence) ==
    IF s1.last_stable_freq > 0
    THEN IF attack
         THEN IF confidence < s1.yin_threshold
              THEN raw_freq ELSE s1.last_stable_freq
         ELSE IF s1.consecutive_decay_frames > 5
              THEN IF IsSameNote(raw_freq, s1.last_stable_freq)
                      /\ confidence < s1.yin_threshold
                   THEN raw_freq ELSE s1.last_stable_freq
              ELSE IF confidence < s1.yin_threshold
                      /\ (IsSameNote(raw_freq, s1.last_stable_freq)
                          \/ confidence < HighConfidence)
                   THEN raw_freq ELSE s1.last_stable_freq
    ELSE IF confidence < s1.yin_threshold
         THEN raw_freq ELSE s1.last_stable_freq

\* Variant of process whose silence branch keeps the cents history and the
\* held cents.
StabProcessKeepCents(st, raw_freq, confidence, amplitude, threshold_rms) ==
    LET s1 == StabCounters(st, amplitude, threshold_rms)
    IN IF amplitude < SilenceFloor(threshold_rms)
       THEN [st |-> [s1 EXCEPT !.last_stable_freq = 0],
             freq |-> 0, valid |-> FALSE]
       ELSE IF raw_freq > 0
            THEN LET f == JumpGuard(s1, IsAttack(st, amplitude, threshold_rms),
                                    raw_freq, confidence)
                 IN [st |-> [s1 EXCEPT !.last_stable_freq = f],
                     freq |-> f, valid |-> f > 0]
            ELSE [st |-> s1, freq |-> 0, valid |-> FALSE]

\* Variant of NoteStabilizer.process that returns the frame's raw frequency.
StabProcessRawOut(st, raw_freq, confidence, amplitude, threshold_rms) ==
    LET attack == IsAttack(st, amplitude, threshold_rms)
        s1 == StabCounters(st, amplitude, threshold_rms)
    IN IF amplitude < SilenceFloor(threshold_rms)
       THEN [st |-> [s1 EXCEPT !.last_stable_freq = 0,
                               !.cents_history = <<>>,
                               !.last_valid_cents = 0],
             freq |-> 0, valid |-> FALSE]
       ELSE IF raw_freq > 0
            THEN LET f == JumpGuard(s1, attack, raw_freq, confidence)
                 IN [st |-> [s1 EXCEPT !.last_stable_freq = f],
                     freq |-> raw_freq, valid |-> raw_freq > 0]
            ELSE [st |-> s1, freq |-> 0, valid |-> FALSE]

\* NoteStabilizer.process: the new state and the returned pair.
StabProcess(st, raw_freq, confidence, amplitude, threshold_rms) ==
    LET attack == IsAttack(st, amplitude, threshold_rms)
        s1 == StabCounters(st, amplitude, threshold_rms)
    IN IF amplitude < SilenceFloor(threshold_rms)
       THEN [st |-> [s1 EXCEPT !.last_stable_freq = 0,
                               !.cents_history = <<>>,
                               !.last_valid_cents = 0],
             freq |-> 0, valid |-> FALSE]
       ELSE IF raw_freq > 0
            THEN LET f == JumpGuard(s1, attack, raw_freq, confidence)
                 IN [st |-> [s1 EXCEPT !.last_stable_freq = f],
                     freq |-> f, valid |-> f > 0]
            ELSE [st |-> s1, freq |-> 0, valid |-> FALSE]

\* The branch of process a frame takes: silence, no estimate, no prior
\* stable frequency, attack, deep decay, sustain.
StabPath(st, raw_freq, amplitude, threshold_rms) ==
    LET s1 == StabCounters(st, amplitude, threshold_rms)
    IN IF amplitude < SilenceFloor(threshold_rms) THEN "silent"
       ELSE IF ~(raw_freq > 0) THEN "no_estimate"
       ELSE IF ~(s1.last_stable_freq > 0) THEN "first"
       ELSE IF IsAttack(st, amplitude, threshold_rms) THEN "attack"
       ELSE IF s1.consecutive_decay_frames > 5 THEN "deep_decay"
       ELSE "sustain"

\* Insertion of x into an ascending sequence.
RECURSIVE SortedInsert(_, _)
SortedInsert(sorted, x) ==
    IF sorted = <<>> THEN <<x>>
    ELSE IF x <= Head(sorted) THEN <<x>> \o sorted
    ELSE <<Head(sorted)>> \o SortedInsert(Tail(sorted), x)

RECURSIVE Sorted(_)
Sorted(seq) ==
    IF seq = <<>> THEN <<>> ELSE SortedInsert(Sorted(Tail(seq)), Head(seq))

\* statistics.median: the middle value, or the mean of the two middle ones
\* (cents values are drawn even, so that mean is a whole number).
Median(seq) ==
    LET srt == Sorted(seq)
        n == Len(seq)
    IN IF n % 2 = 1 THEN srt[(n + 1) \div 2]
       ELSE (srt[n \div 2] + srt[n \div 2 + 1]) \div 2

\* Variant of deque.append without a capacity.
DequeAppendNoEvict(hist, maxlen, x) == Append(hist, x)

\* deque(maxlen).append: the oldest value leaves a full deque.
DequeAppend(hist, maxlen, x) ==
    IF Len(hist) < maxlen THEN Append(hist, x)
    ELSE Append(Tail(hist), x)

\* NoteStabilizer.smooth_cents: the new state and the returned median.
StabSmoothCents(st, cents) ==
    LET hist == DequeAppend(st.cents_history, st.maxlen, cents)
        val == Median(hist)
    IN [st |-> [st EXCEPT !.cents_history = hist, !.last_valid_cents = val],
        val |-> val]

\* The settings PitchDetector.__init__ starts from.
DefaultSettings ==
    [threshold |-> 10, yin_threshold |-> 20, latency_mode |-> "normal",
     smoothing |-> 5, instrument_type |-> "guitar",
     nearest_note_window |-> 300, high_quality |-> FALSE]

\* ------------------------------------------------------------- PitchAnalyzer
\* Sample counts are whole numbers; confidences (CMNDF values) are in
\* hundredths, so the "not found" confidence 1.0 is 100.
RATE == 44100
NotFoundConfidence == 100
DefaultRmsThreshold == 10
DefaultNoteWindow == 300
ReferencePitch == 440

AnRestartKeys == {"latency_mode", "instrument_type", "high_quality"}

\* Variant of the restart test that looks at latency_mode only.
AnNeedsRestartLatencyOnly(config) == "latency_mode" \in DOMAIN config

\* needs_restart = any(key in new_config for key in restart_required_keys)
AnNeedsRestart(config) ==
    \E key \in AnRestartKeys : key \in DOMAIN config

\* Variant of the window table with a fast window of 4096 samples.
BaseSamplesShortFast(mode) ==
    IF mode = "fast" THEN 4096
    ELSE IF mode = "stable" THEN 32768
    ELSE 16384

\* {"fast": 8192, "stable": 32768}.get(mode, 16384)
BaseSamples(mode) ==
    IF mode = "fast" THEN 8192
    ELSE IF mode = "stable" THEN 32768
    ELSE 16384

\* YinProcessor.__init__: the threshold is stored, the search range is
\* derived from the band; sample_rate is RATE / dec.
YinNew(dec, min_freq, max_freq, threshold) ==
    [dec |-> dec,
     threshold |-> threshold,
     min_period |-> RATE \div (dec * max_freq),
     max_period |-> RATE \div (dec * min_freq)]

\* np.zeros(size * 2): a buffer is its length and whether it still holds
\* nothing but the zeros it was filled with.
ZeroBuffer(size) == [size |-> size * 2, zero |-> TRUE]

\* PitchAnalyzer.apply_settings: nothing unless full_reset; else both bands
\* are rebuilt from the settings and the stabilizer is reset.
ApplySettings(a, st, cfg, full_reset) ==
    IF ~full_reset THEN [an |-> a, stab |-> st]
    ELSE
    LET instr == CfgGet(cfg, "instrument_type", "guitar")
        is_high_quality == CfgGet(cfg, "high_quality", FALSE)
        bass == instr = "bass"
        dec_low == IF bass THEN 10 ELSE 8
        dec_high == IF bass THEN (IF is_high_quality THEN 2 ELSE 4)
                    ELSE (IF is_high_quality THEN 1 ELSE 2)
        low_range == IF bass THEN <<20, 300>> ELSE <<30, 400>>
        high_range == IF bass THEN <<100, 600>> ELSE <<200, 1200>>
        base_samples == BaseSamples(CfgGet(cfg, "latency_mode", "normal"))
        threshold == CfgGet(cfg, "yin_threshold", DefaultYinThreshold)
    IN [an |-> [dec_low |-> dec_low,
                dec_high |-> dec_high,
                buf_low |-> ZeroBuffer(base_samples \div dec_low),
                ptr_low |-> 0,
                proc_low |-> YinNew(dec_low, low_range[1], low_range[2],
                                    threshold),
                buf_high |-> ZeroBuffer(base_samples \div dec_high),
                ptr_high |-> 0,
                proc_high |-> YinNew(dec_high, high_range[1], high_range[2],
                                     threshold),
                rem_low |-> 0,
                rem_high |-> 0],
        stab |-> StabReset(st)]

\* PitchAnalyzer.__init__: empty fields, a stabilizer, a full reset.
AnNew(config) ==
    ApplySettings([dec_low |-> 8, dec_high |-> 2,
                   buf_low |-> [size |-> 0, zero |-> TRUE], ptr_low |-> 0,
                   proc_low |-> YinNew(8, 1, 1, 0),
                   buf_high |-> [size |-> 0, zero |-> TRUE], ptr_high |-> 0,
                   proc_high |-> YinNew(2, 1, 1, 0),
                   rem_low |-> 0, rem_high |-> 0],
                  StabNew(config), config, TRUE)

\* PitchAnalyzer.update_settings: merge, stabilizer.update_config, then
\* apply_settings(full_reset = needs_restart); returns needs_restart.
AnUpdateSettings(a, st, cfg, config) ==
    LET needs_restart == AnNeedsRestart(config)
        merged == Merge(cfg, config)
        applied == ApplySettings(a, StabUpdateConfig(st, merged), merged,
                                 needs_restart)
    IN [settings |-> merged, an |-> applied.an, stab |-> applied.stab,
        ret |-> needs_restart]

\* PitchAnalyzer.reset_state
AnResetState(a, st) ==
    [an |-> [a EXCEPT !.buf_low.zero = TRUE, !.buf_high.zero = TRUE,
                      !.ptr_low = 0, !.ptr_high = 0,
                      !.rem_low = 0, !.rem_high = 0],
     stab |-> StabReset(st)]

\* PitchAnalyzer._update_buffer on lengths: new_len raw samples arrive, rem
\* raw samples were carried; returns the window length, the new remainder
\* and write pointer, and the buffer.
UpdateBuffer(new_len, rem, buf, ptr, dec_factor) ==
    LET combined == rem + new_len
        num_blocks == combined \div dec_factor
        N == buf.size \div 2
        n == MinOf(num_blocks, N)
        remain_space == N - ptr
    IN IF num_blocks > 0
       THEN [window |-> N,
             rem |-> combined - num_blocks * dec_factor,
             ptr |-> IF n <= remain_space THEN (ptr + n) % N
                     ELSE n - remain_space,
             buf |-> [buf EXCEPT !.zero = FALSE]]
       ELSE [window |-> N, rem |-> combined, ptr |-> ptr, buf |-> buf]

\* --- _update_buffer on sample values -----------------------------------------
\* One band with its samples: buf is the double buffer (2N values), rem the
\* raw samples carried to the next frame.  fed counts the raw samples given
\* to the band, base is fed at the last allocation or reset, op the last
\* operation and out the window it handed to the estimator.
Slice(s, from, to) == SubSeq(s, from + 1, to)           \* s[from:to]

\* buffer[at : at + len(data)] = data
Store(buffer, at, data) ==
    [i \in 1..Len(buffer) |->
        IF at < i /\ i <= at + Len(data) THEN data[i - at] ELSE buffer[i]]

RECURSIVE SumSeq(_)
SumSeq(s) == IF s = <<>> THEN 0 ELSE Head(s) + SumSeq(Tail(s))

\* np.mean(to_process.reshape(-1, dec_factor), axis=1)
BlockMeans(to_process, dec_factor) ==
    [j \in 1..(Len(to_process) \div dec_factor) |->
        SumSeq(SubSeq(to_process, (j - 1) * dec_factor + 1, j * dec_factor))
            \div dec_factor]

Zeros(n) == [i \in 1..n |-> 0]

\* Variant of _update_buffer that writes the first copy only.
UpdateBufferNoMirror(new_data, remainder, buffer, ptr, dec_factor) ==
    LET combined == remainder \o new_data
        num_blocks == Len(combined) \div dec_factor
        N == Len(buffer) \div 2
        process_len == num_blocks * dec_factor
        all == BlockMeans(Slice(combined, 0, process_len), dec_factor)
        decimated == IF Len(all) > N THEN Slice(all, Len(all) - N, Len(all))
                     ELSE all
        n == Len(decimated)
        remain_space == N - ptr
        chunk1 == Slice(decimated, 0, remain_space)
        chunk2 == Slice(decimated, remain_space, n)
        written == IF n <= remain_space
                   THEN Store(buffer, ptr, decimated)
                   ELSE Store(Store(buffer, ptr, chunk1), 0, chunk2)
        new_ptr == IF n <= remain_space THEN (ptr + n) % N
                   ELSE Len(chunk2)
    IN IF num_blocks > 0
       THEN [out |-> Slice(written, new_ptr, new_ptr + N),
             rem |-> Slice(combined, process_len, Len(combined)),
             ptr |-> new_ptr, buf |-> written]
       ELSE [out |-> Slice(buffer, ptr, ptr + N), rem |-> combined,
             ptr |-> ptr, buf |-> buffer]

\* Variant of _update_buffer that decimates each frame on its own: the raw
\* samples left over from the frame before are not put in front.
UpdateBufferNoCarry(new_data, remainder, buffer, ptr, dec_factor) ==
    LET combined == new_data
        num_blocks == Len(combined) \div dec_factor
        N == Len(buffer) \div 2
        process_len == num_blocks * dec_factor
        all == BlockMeans(Slice(combined, 0, process_len), dec_factor)
        decimated == IF Len(all) > N THEN Slice(all, Len(all) - N, Len(all))
                     ELSE all
        n == Len(decimated)
        remain_space == N - ptr
        chunk1 == Slice(decimated, 0, remain_space)
        chunk2 == Slice(decimated, remain_space, n)
        written ==
            IF n <= remain_space
            THEN Store(Store(buffer, ptr, decimated), ptr + N, decimated)
            ELSE Store(Store(Store(Store(buffer, ptr, chunk1),
                                   ptr + N, chunk1), 0, chunk2), N, chunk2)
        new_ptr == IF n <= remain_space THEN (ptr + n) % N
                   ELSE Len(chunk2)
    IN IF num_blocks > 0
       THEN [out |-> Slice(written, new_ptr, new_ptr + N),
             rem |-> Slice(combined, process_len, Len(combined)),
             ptr |-> new_ptr, buf |-> written]
       ELSE [out |-> Slice(buffer, ptr, ptr + N), rem |-> combined,
             ptr |-> ptr, buf |-> buffer]

\* Variant of _update_buffer whose write pointer is not taken modulo N.
UpdateBufferNoWrap(new_data, remainder, buffer, ptr, dec_factor) ==
    LET combined == IF Len(remainder) > 0 THEN remainder \o new_data
                    ELSE new_data
        num_blocks == Len(combined) \div dec_factor
        N == Len(buffer) \div 2
        process_len == num_blocks * dec_factor
        all == BlockMeans(Slice(combined, 0, process_len), dec_factor)
        decimated == IF Len(all) > N THEN Slice(all, Len(all) - N, Len(all))
                     ELSE all
        n == Len(decimated)
        remain_space == N - ptr
        chunk1 == Slice(decimated, 0, remain_space)
        chunk2 == Slice(decimated, remain_space, n)
        written ==
            IF n <= remain_space
            THEN Store(Store(buffer, ptr, decimated), ptr + N, decimated)
            ELSE Store(Store(Store(Store(buffer, ptr, chunk1),
                                   ptr + N, chunk1), 0, chunk2), N, chunk2)
        new_ptr == IF n <= remain_space THEN ptr + n
                   ELSE Len(chunk2)
    IN IF num_blocks > 0
       THEN [out |-> Slice(written, new_ptr, new_ptr + N),
             rem |-> Slice(combined, process_len, Len(combined)),
             ptr |-> new_ptr, buf |-> written]
       ELSE [out |-> Slice(buffer, ptr, ptr + N), rem |-> combined,
             ptr |-> ptr, buf |-> buffer]

\* PitchAnalyzer._update_buffer: carry, decimate by block means, write both
\* copies (in two chunks when the write wraps), hand out buffer[ptr : ptr+N].
UpdateBufferData(new_data, remainder, buffer, ptr, dec_factor) ==
    LET combined == IF Len(remainder) > 0 THEN remainder \o new_data
                    ELSE new_data
        num_blocks == Len(combined) \div dec_factor
        N == Len(buffer) \div 2
        process_len == num_blocks * dec_factor
        all == BlockMeans(Slice(combined, 0, process_len), dec_factor)
        decimated == IF Len(all) > N THEN Slice(all, Len(all) - N, Len(all))
                     ELSE all
        n == Len(decimated)
        remain_space == N - ptr
        chunk1 == Slice(decimated, 0, remain_space)
        chunk2 == Slice(decimated, remain_space, n)
        written ==
            IF n <= remain_space
            THEN Store(Store(buffer, ptr, decimated), ptr + N, decimated)
            ELSE Store(Store(Store(Store(buffer, ptr, chunk1),
                                   ptr + N, chunk1), 0, chunk2), N, chunk2)
        new_ptr == IF n <= remain_space THEN (ptr + n) % N
                   ELSE Len(chunk2)
    IN IF num_blocks > 0
       THEN [out |-> Slice(written, new_ptr, new_ptr + N),
             rem |-> Slice(combined, process_len, Len(combined)),
             ptr |-> new_ptr, buf |-> written]
       ELSE [out |-> Slice(buffer, ptr, ptr + N), rem |-> combined,
             ptr |-> ptr, buf |-> buffer]

\* apply_settings: np.zeros(size * 2), ptr = 0, empty remainder.
BandNew(size, dec_factor, fed) ==
    [buf |-> Zeros(size * 2), ptr |-> 0, rem |-> <<>>, dec |-> dec_factor,
     fed |-> fed, base |-> fed, op |-> "alloc", out |-> <<>>]

\* reset_state: buffer.fill(0), ptr = 0, empty remainder.
BandReset(b) ==
    [b EXCEPT !.buf = Zeros(Len(b.buf)), !.ptr = 0, !.rem = <<>>,
              !.base = b.fed, !.op = "reset", !.out = <<>>]

\* The raw samples are told apart by their values: the k-th sample given to
\* the band is 2k.
NewData(fed, len) == [i \in 1..len |-> 2 * (fed + i)]

\* process: one frame of len raw samples goes through _update_buffer.
BandFeed(b, len) ==
    LET r == UpdateBufferData(NewData(b.fed, len), b.rem, b.buf, b.ptr, b.dec)
    IN [b EXCEPT !.buf = r.buf, !.ptr = r.ptr, !.rem = r.rem,
                 !.fed = b.fed + len, !.op = "feed", !.out = r.out]

NotFound == [freq |-> 0, conf |-> NotFoundConfidence]

\* A lag of the band's search range [min_period, max_period).
InBand(proc, freq) ==
    LET tau == RATE \div (proc.dec * freq)
    IN proc.min_period <= tau /\ tau < proc.max_period

\* The lower of two dips, the earlier one on a tie (np.argmin).
RECURSIVE GlobalMin(_)
GlobalMin(dips) ==
    IF Len(dips) = 1 THEN dips[1]
    ELSE LET rest == GlobalMin(Tail(dips))
         IN IF rest.val < dips[1].val THEN rest ELSE dips[1]

\* YinProcessor.process on a window of signal_len samples whose CMNDF has
\* the local minima dips (by increasing lag, each a frequency and a value):
\* the length check, then the first dip of the band below self.threshold,
\* else the global minimum unless it is >= 1.0.
YinProcess(proc, signal_len, dips) ==
    IF signal_len < proc.max_period + signal_len \div 2 THEN NotFound
    ELSE LET search_range == SelectSeq(dips, LAMBDA d : InBand(proc, d.freq))
             candidates == {i \in 1..Len(search_range) :
                               search_range[i].val < proc.threshold}
         IN IF candidates # {}
            THEN LET first == CHOOSE i \in candidates :
                                  \A j \in candidates : i <= j
                 IN [freq |-> search_range[first].freq,
                     conf |-> search_range[first].val]
            ELSE IF search_range = <<>> THEN NotFound
            ELSE LET best == GlobalMin(search_range)
                 IN IF best.val >= NotFoundConfidence THEN NotFound
                    ELSE [freq |-> best.freq, conf |-> best.val]

Abs(x) == IF x < 0 THEN -x ELSE x

\* ------------------------------------ YinProcessor on sample values and lags
\* YinProcessor.__init__ for sample_rate = rate / dec: the search range
\* [min_period, max_period) and the threshold (in hundredths).
YinProcessorNew(rate, dec, min_freq, max_freq, threshold) ==
    [rate |-> rate, dec |-> dec, threshold |-> threshold,
     min_period |-> rate \div (dec * max_freq),
     max_period |-> rate \div (dec * min_freq)]

\* A float of the estimator is the exact fraction num/den. den = 0 with
\* num = 0 is the NaN of 0.0/0.0 (np.errstate silences the warning), den = 0
\* with num # 0 is an infinity.
Frac(n, d) == [num |-> n, den |-> d]
IsNaN(v) == v.den = 0 /\ v.num = 0
FracOne == Frac(1, 1)

\* a/b < c/d for a, c >= 0 and b, d > 0, by integer parts and remainders.
RECURSIVE QuotLess(_, _, _, _)
QuotLess(a, b, c, d) ==
    IF a \div b # c \div d THEN a \div b < c \div d
    ELSE IF c % d = 0 THEN FALSE
    ELSE IF a % b = 0 THEN TRUE
    ELSE QuotLess(d, c % d, b, a % b)

\* v < w on floats that are not negative: FALSE as soon as one is NaN.
FracLess(v, w) ==
    /\ v.den # 0
    /\ w.den # 0
    /\ QuotLess(v.num, v.den, w.num, w.den)

\* v >= w on floats that are not negative: FALSE as soon as one is NaN.
FracGeq(v, w) ==
    /\ v.den # 0
    /\ w.den # 0
    /\ ~QuotLess(v.num, v.den, w.num, w.den)

\* d(tau) = sum over j < half_chunk of (x[j] - x[j + tau])^2, which term1 +
\* term2 - term3 computes; j counts the terms still to add.
RECURSIVE YinDifference(_, _, _)
YinDifference(signal, tau, j) ==
    IF j = 0 THEN 0
    ELSE (signal[j] - signal[j + tau]) * (signal[j] - signal[j + tau])
         + YinDifference(signal, tau, j - 1)

\* cmndf_buffer[tau..max_period-1] = diff * tau / cumsum(diff); cum is the
\* cumulative sum up to tau - 1 (diff_buffer[0] is 0).
RECURSIVE YinCmndfFrom(_, _, _, _, _)
YinCmndfFrom(signal, half_chunk, max_period, tau, cum) ==
    IF tau >= max_period THEN <<>>
    ELSE LET diff == YinDifference(signal, tau, half_chunk)
         IN <<Frac(diff * tau, cum + diff)>>
            \o YinCmndfFrom(signal, half_chunk, max_period, tau + 1,
                            cum + diff)

\* The CMNDF over [0, max_period): element tau + 1 of the sequence is
\* cmndf_buffer[tau], and cmndf_buffer[0] = 1.0.
YinCmndf(signal, max_period) ==
    <<FracOne>> \o YinCmndfFrom(signal, Len(signal) \div 2, max_period, 1, 0)

\* np.argmin(cmndf_buffer[start:end]) + start: the first NaN if there is
\* one, else the first lag holding the least value.
YinArgMin(cmndf, start, end) ==
    LET lags == start .. (end - 1)
        nans == {t \in lags : IsNaN(cmndf[t + 1])}
    IN IF nans # {}
       THEN CHOOSE t \in nans : \A u \in nans : t <= u
       ELSE CHOOSE t \in lags :
                \A u \in lags : /\ ~FracLess(cmndf[u + 1], cmndf[t + 1])
                                /\ u < t => FracLess(cmndf[t + 1], cmndf[u + 1])

\* while tau + 1 < self.max_period and cmndf[tau + 1] < cmndf[tau]: tau += 1
RECURSIVE YinDescend(_, _, _)
YinDescend(cmndf, max_period, tau) ==
    IF tau + 1 < max_period /\ FracLess(cmndf[tau + 2], cmndf[tau + 1])
    THEN YinDescend(cmndf, max_period, tau + 1)
    ELSE tau

\* The selection found no lag.
NoLag == -1

\* Variant of the absolute-threshold step that keeps the first lag below the
\* threshold, without the descent to the local minimum.
YinSelectLagNoDescent(proc, cmndf) ==
    LET search_range == proc.min_period .. (proc.max_period - 1)
        candidates == {t \in search_range :
                          FracLess(cmndf[t + 1], Frac(proc.threshold, 100))}
    IN IF candidates # {}
       THEN CHOOSE t \in candidates : \A u \in candidates : t <= u
       ELSE IF search_range # {}
       THEN LET best_tau == YinArgMin(cmndf, proc.min_period, proc.max_period)
            IN IF FracGeq(cmndf[best_tau + 1], FracOne) THEN NoLag
               ELSE best_tau
       ELSE NoLag

\* Step 3 (absolute threshold): best_tau, or NoLag where the code returns
\* 0.0, 1.0.
YinSelectLag(proc, cmndf) ==
    LET search_range == proc.min_period .. (proc.max_period - 1)
        candidates == {t \in search_range :
                          FracLess(cmndf[t + 1], Frac(proc.threshold, 100))}
    IN IF candidates # {}
       THEN YinDescend(cmndf, proc.max_period,
                       CHOOSE t \in candidates : \A u \in candidates : t <= u)
       ELSE IF search_range # {}
       THEN LET best_tau == YinArgMin(cmndf, proc.min_period, proc.max_period)
            IN IF FracGeq(cmndf[best_tau + 1], FracOne) THEN NoLag
               ELSE best_tau
       ELSE NoLag

\* for harmonic in range(2, 5): the first lag near best_tau / harmonic whose
\* value is below 0.35 and below 2.5 times the current value replaces best_tau.
RECURSIVE YinHarmonicCheck(_, _, _, _)
YinHarmonicCheck(proc, cmndf, best_tau, harmonic) ==
    IF harmonic > 4 THEN best_tau
    ELSE LET check_tau == best_tau \div harmonic
             start == MaxOf(proc.min_period, check_tau - 2)
             end == MinOf(proc.max_period, check_tau + 3)
         IN IF check_tau < proc.min_period THEN best_tau
            ELSE IF start >= end
            THEN YinHarmonicCheck(proc, cmndf, best_tau, harmonic + 1)
            ELSE LET found_tau == YinArgMin(cmndf, start, end)
                     found_val == cmndf[found_tau + 1]
                     current_val == cmndf[best_tau + 1]
                 IN IF /\ FracLess(found_val, Frac(35, 100))
                       /\ FracLess(found_val, Frac(5 * current_val.num,
                                                   2 * current_val.den))
                    THEN found_tau
                    ELSE YinHarmonicCheck(proc, cmndf, best_tau, harmonic + 1)

\* Step 3.5: the harmonic check runs when sample_rate / best_tau < 250.0.
YinBacktrack(proc, cmndf, best_tau) ==
    IF proc.rate < 250 * proc.dec * best_tau
    THEN YinHarmonicCheck(proc, cmndf, best_tau, 2)
    ELSE best_tau

\* Step 4: sample_rate / current_period. With y = n/d at the three lags and
\* D = d1*d2*d3, y1 - y3 = a/D and denom = b/D, so that current_period is
\* best_tau + a/(2b) and the frequency rate*2b / (dec*(2b*best_tau + a)).
YinFrequency(proc, cmndf, best_tau) ==
    LET y1 == cmndf[best_tau]
        y2 == cmndf[best_tau + 1]
        y3 == cmndf[best_tau + 2]
        a == y1.num * y2.den * y3.den - y3.num * y1.den * y2.den
        b == y1.num * y2.den * y3.den - 2 * y2.num * y1.den * y3.den
             + y3.num * y1.den * y2.den
        D == y1.den * y2.den * y3.den
        plain == Frac(proc.rate, proc.dec * best_tau)
    IN IF ~(0 < best_tau /\ best_tau < proc.max_period - 1) THEN plain
       ELSE IF IsNaN(y1) \/ IsNaN(y2) \/ IsNaN(y3) THEN plain
       ELSE IF ~QuotLess(1, 1000000, Abs(b), D) THEN plain
       ELSE IF b > 0
       THEN Frac(proc.rate * 2 * b, proc.dec * (2 * b * best_tau + a))
       ELSE Frac(proc.rate * 2 * (-b), proc.dec * (2 * (-b) * best_tau - a))

\* The results of YinProcessor.process: a lag with its frequency and
\* confidence, the "not found" pair 0.0, 1.0, or an exception.
YinNotFound ==
    [kind |-> "not_found", selected |-> NoLag, tau |-> NoLag,
     freq |-> Frac(0, 1), conf |-> FracOne]
YinRaised ==
    [kind |-> "raised", selected |-> NoLag, tau |-> NoLag,
     freq |-> Frac(0, 1), conf |-> FracOne]

\* Steps 2 to 4 on a signal that passed the length check. cum_sq[end_indices]
\* raises IndexError when an index exceeds len(signal).
YinSearch(proc, signal) ==
    IF proc.max_period - 1 + Len(signal) \div 2 > Len(signal) THEN YinRaised
    ELSE LET cmndf == YinCmndf(signal, proc.max_period)
             selected == YinSelectLag(proc, cmndf)
             best_tau == YinBacktrack(proc, cmndf, selected)
         IN IF selected = NoLag THEN YinNotFound
            ELSE [kind |-> "found", selected |-> selected, tau |-> best_tau,
                  freq |-> YinFrequency(proc, cmndf, best_tau),
                  conf |-> cmndf[best_tau + 1]]

\* Variant of process whose length check forgets half_chunk.
YinEstimateNoHalfChunk(proc, signal) ==
    IF Len(signal) < proc.max_period THEN YinNotFound
    ELSE YinSearch(proc, signal)

\* YinProcessor.process(signal).
YinEstimate(proc, signal) ==
    IF Len(signal) < proc.max_period + Len(signal) \div 2 THEN YinNotFound
    ELSE YinSearch(proc, signal)

\* Variant of the merge logic that prefers the low band on equal confidence.
FusePreferLow(L, H, threshold) ==
    LET valid_L == L.conf < threshold /\ L.freq > 0
        valid_H == H.conf < threshold /\ H.freq > 0
    IN IF valid_L /\ valid_H
       THEN IF H.freq > 350 THEN H
            ELSE IF L.freq < 150 THEN L
            ELSE IF H.conf < L.conf THEN H ELSE L
       ELSE IF valid_H THEN H
       ELSE IF valid_L THEN L
       ELSE NotFound

\* The merge logic of process: which band's estimate is the raw frequency.
Fuse(L, H, threshold) ==
    LET valid_L == L.conf < threshold /\ L.freq > 0
        valid_H == H.conf < threshold /\ H.freq > 0
    IN IF valid_L /\ valid_H
       THEN IF H.freq > 350 THEN H
            ELSE IF L.freq < 150 THEN L
            ELSE IF H.conf <= L.conf THEN H ELSE L
       ELSE IF valid_H THEN H
       ELSE IF valid_L THEN L
       ELSE NotFound

\* 1200 * log2(freq / base_freq) in whole cents, for the frequencies the
\* frames and target sets below hold.
Cents(freq, base_freq) ==
    CASE freq = base_freq -> 0
      [] freq = 50 /\ base_freq = 82 -> -856
      [] freq = 50 /\ base_freq = 110 -> -1365
      [] freq = 50 /\ base_freq = 73 -> -655
      [] freq = 113 /\ base_freq = 82 -> 555
      [] freq = 113 /\ base_freq = 110 -> 47
      [] freq = 113 /\ base_freq = 73 -> 756
      [] freq = 110 /\ base_freq = 82 -> 509
      [] freq = 110 /\ base_freq = 73 -> 710
      [] freq = 111 /\ base_freq = 82 -> 524
      [] freq = 111 /\ base_freq = 110 -> 16
      [] freq = 111 /\ base_freq = 73 -> 726
      [] freq = 220 /\ base_freq = 82 -> 1709
      [] freq = 220 /\ base_freq = 110 -> 1200
      [] freq = 220 /\ base_freq = 73 -> 1910
      [] freq = 440 /\ base_freq = 82 -> 2909
      [] freq = 440 /\ base_freq = 110 -> 2400
      [] freq = 440 /\ base_freq = 73 -> 3110

\* target_frequencies: name -> base frequency, in iteration order.
TargetSet(tag) ==
    IF tag = "standard"
    THEN << [name |-> "E2", freq |-> 82], [name |-> "A2", freq |-> 110] >>
    ELSE << [name |-> "D2", freq |-> 73], [name |-> "A2", freq |-> 110] >>

NoMatch == [name |-> "---", label |-> "", cents |-> 0]

\* Variant of the loop in which an equal |diff_cents| replaces as well.
RECURSIVE NearestTargetLast(_, _)
NearestTargetLast(diffs, best) ==
    IF diffs = <<>> THEN best
    ELSE NearestTargetLast(Tail(diffs),
             IF ~best.found \/ Abs(Head(diffs).cents) <= Abs(best.cents)
             THEN [found |-> TRUE, name |-> Head(diffs).name,
                   cents |-> Head(diffs).cents]
             ELSE best)

\* The loop of _match_frequency: strictly smaller |diff_cents| replaces.
RECURSIVE NearestTarget(_, _)
NearestTarget(diffs, best) ==
    IF diffs = <<>> THEN best
    ELSE NearestTarget(Tail(diffs),
             IF ~best.found \/ Abs(Head(diffs).cents) < Abs(best.cents)
             THEN [found |-> TRUE, name |-> Head(diffs).name,
                   cents |-> Head(diffs).cents]
             ELSE best)

\* Variant of the tail of _match_frequency with on-pitch up to 5 cents.
ClassifyOnPitchAtFive(best, limit) ==
    IF ~best.found THEN NoMatch
    ELSE IF Abs(best.cents) > limit THEN NoMatch
    ELSE IF Abs(best.cents) <= 50
         THEN [name |-> best.name,
               label |-> IF Abs(best.cents) <= 5 THEN "OK"
                         ELSE IF best.cents > 0 THEN "sharp" ELSE "flat",
               cents |-> best.cents]
         ELSE [name |-> best.name,
               label |-> IF best.cents > 0 THEN "too_sharp" ELSE "too_flat",
               cents |-> best.cents]

\* The tail of _match_frequency: window, then the label.
Classify(best, limit) ==
    IF ~best.found THEN NoMatch
    ELSE IF Abs(best.cents) > limit THEN NoMatch
    ELSE IF Abs(best.cents) <= 50
         THEN [name |-> best.name,
               label |-> IF Abs(best.cents) < 5 THEN "OK"
                         ELSE IF best.cents > 0 THEN "sharp" ELSE "flat",
               cents |-> best.cents]
         ELSE [name |-> best.name,
               label |-> IF best.cents > 0 THEN "too_sharp" ELSE "too_flat",
               cents |-> best.cents]

\* PitchAnalyzer._match_frequency(freq); offset shifts every deviation, for
\* the frequency 440 * 2 ** (offset / 1200) of the held-cents branch.
MatchFrequency(freq, offset, targets, cfg) ==
    IF freq = 0 THEN NoMatch
    ELSE Classify(
           NearestTarget(
             [i \in 1..Len(targets) |->
                 [name |-> targets[i].name,
                  cents |-> offset + Cents(freq, targets[i].freq)]],
             [found |-> FALSE, name |-> "", cents |-> 0]),
           CfgGet(cfg, "nearest_note_window", DefaultNoteWindow))

NoCents == [some |-> FALSE, val |-> 0]

\* Variant of process that also reports the held cents at an amplitude of
\* exactly threshold * 10.
AnProcessHeldAtFloor(a, st, cfg, tag, frame) ==
    LET upL == UpdateBuffer(frame.len, a.rem_low, a.buf_low, a.ptr_low,
                            a.dec_low)
        estL == YinProcess(a.proc_low, upL.window, frame.dips)
        upH == UpdateBuffer(frame.len, a.rem_high, a.buf_high, a.ptr_high,
                            a.dec_high)
        estH == YinProcess(a.proc_high, upH.window, frame.dips)
        threshold == CfgGet(cfg, "yin_threshold", DefaultYinThreshold)
        raw == Fuse(estL, estH, threshold)
        threshold_rms == CfgGet(cfg, "threshold", DefaultRmsThreshold)
        sp == StabProcess(st, raw.freq, raw.conf, frame.amplitude,
                          threshold_rms)
        targets == TargetSet(tag)
        a1 == [a EXCEPT !.rem_low = upL.rem, !.ptr_low = upL.ptr,
                        !.buf_low = upL.buf,
                        !.rem_high = upH.rem, !.ptr_high = upH.ptr,
                        !.buf_high = upH.buf]
        match == MatchFrequency(sp.freq, 0, targets, cfg)
        held == MatchFrequency(ReferencePitch, sp.st.last_valid_cents,
                               targets, cfg)
        sm == StabSmoothCents(sp.st, match.cents)
        used == [yin_low |-> a.proc_low.threshold,
                 yin_high |-> a.proc_high.threshold,
                 yin_fusion |-> threshold,
                 yin_stab |-> st.yin_threshold,
                 floor |-> SilenceFloor(threshold_rms)]
        volume == MinOf(frame.amplitude, 1000)
    IN IF sp.valid /\ sp.freq > 0
       THEN IF match.name # "---"
            THEN [an |-> a1, stab |-> sm.st, raw |-> raw, used |-> used,
                  low |-> estL, high |-> estH,
                  out |-> [result |-> match, volume |-> volume,
                           cents |-> [some |-> TRUE, val |-> sm.val]]]
            ELSE [an |-> a1, stab |-> sp.st, raw |-> raw, used |-> used,
                  low |-> estL, high |-> estH,
                  out |-> [result |-> NoMatch, volume |-> volume,
                           cents |-> NoCents]]
       ELSE IF sp.st.last_valid_cents # 0
               /\ frame.amplitude >= threshold_rms * 10
            THEN [an |-> a1, stab |-> sp.st, raw |-> raw, used |-> used,
                  low |-> estL, high |-> estH,
                  out |-> [result |-> held, volume |-> volume,
                           cents |-> [some |-> TRUE,
                                      val |-> sp.st.last_valid_cents]]]
            ELSE [an |-> a1, stab |-> sp.st, raw |-> raw, used |-> used,
                  low |-> estL, high |-> estH,
                  out |-> [result |-> NoMatch, volume |-> volume,
                           cents |-> NoCents]]

\* PitchAnalyzer.process on a frame (its length, its RMS amplitude and the
\* CMNDF dips of the signal): both bands, fusion, stabilizer, matching.
\* used records the threshold each stage compared against.
AnProcess(a, st, cfg, tag, frame) ==
    LET upL == UpdateBuffer(frame.len, a.rem_low, a.buf_low, a.ptr_low,
                            a.dec_low)
        estL == YinProcess(a.proc_low, upL.window, frame.dips)
        upH == UpdateBuffer(frame.len, a.rem_high, a.buf_high, a.ptr_high,
                            a.dec_high)
        estH == YinProcess(a.proc_high, upH.window, frame.dips)
        threshold == CfgGet(cfg, "yin_threshold", DefaultYinThreshold)
        raw == Fuse(estL, estH, threshold)
        threshold_rms == CfgGet(cfg, "threshold", DefaultRmsThreshold)
        sp == StabProcess(st, raw.freq, raw.conf, frame.amplitude,
                          threshold_rms)
        targets == TargetSet(tag)
        a1 == [a EXCEPT !.rem_low = upL.rem, !.ptr_low = upL.ptr,
                        !.buf_low = upL.buf,
                        !.rem_high = upH.rem, !.ptr_high = upH.ptr,
                        !.buf_high = upH.buf]
        match == MatchFrequency(sp.freq, 0, targets, cfg)
        held == MatchFrequency(ReferencePitch, sp.st.last_valid_cents,
                               targets, cfg)
        sm == StabSmoothCents(sp.st, match.cents)
        used == [yin_low |-> a.proc_low.threshold,
                 yin_high |-> a.proc_high.threshold,
                 yin_fusion |-> threshold,
                 yin_stab |-> st.yin_threshold,
                 floor |-> SilenceFloor(threshold_rms)]
        volume == MinOf(frame.amplitude, 1000)
    IN IF sp.valid /\ sp.freq > 0
       THEN IF match.name # "---"
            THEN [an |-> a1, stab |-> sm.st, raw |-> raw, used |-> used,
                  low |-> estL, high |-> estH,
                  out |-> [result |-> match, volume |-> volume,
                           cents |-> [some |-> TRUE, val |-> sm.val]]]
            ELSE [an |-> a1, stab |-> sp.st, raw |-> raw, used |-> used,
                  low |-> estL, high |-> estH,
                  out |-> [result |-> NoMatch, volume |-> volume,
                           cents |-> NoCents]]
       ELSE IF sp.st.last_valid_cents # 0
               /\ frame.amplitude > threshold_rms * 10
            THEN [an |-> a1, stab |-> sp.st, raw |-> raw, used |-> used,
                  low |-> estL, high |-> estH,
                  out |-> [result |-> held, volume |-> volume,
                           cents |-> [some |-> TRUE,
                                      val |-> sp.st.last_valid_cents]]]
            ELSE [an |-> a1, stab |-> sp.st, raw |-> raw, used |-> used,
                  low |-> estL, high |-> estH,
                  out |-> [result |-> NoMatch, volume |-> volume,
                           cents |-> NoCents]]

NoOut == [result |-> NoMatch, volume |-> 0, cents |-> NoCents]

\* acall: how many analyzer calls were made, the last one, its argument
\* and what it returned.
\* No YinProcessor.process call is being looked at.
NoYinCall ==
    [op |-> "none", proc |-> YinProcessorNew(RATE, 1, 1, 1, 0),
     signal |-> <<>>, cmndf |-> <<>>, ret |-> YinNotFound]

NoAnCall == [n |-> 0, op |-> "none", upd |-> NoConfig, ret |-> FALSE,
             written |-> FALSE, low |-> NotFound, high |-> NotFound,
             raw |-> NotFound, out |-> NoOut]

DetInit ==
    /\ is_running = FALSE
    /\ stop_event = FALSE
    /\ stream = "none"
    /\ pa = FALSE
    /\ analysis_lock = LockFree
    /\ audio_queue = <<>>
    /\ analysis_thread = NoThread
    /\ tpc = [t \in Threads |-> "dead"]
    /\ tframe = [t \in Threads |-> 0]
    /\ tseen = [t \in Threads |-> NoSeen]
    /\ cpc = "idle"
    /\ cop = "none"
    /\ new_config = NoConfig
    /\ was_running = FALSE
    /\ settings = DefaultSettings
    /\ target_frequencies = "standard"
    /\ an_dirty = FALSE
    /\ an_epoch = 0
    /\ epoch = 0
    /\ captured = 0
    /\ cb_result = "none"
    /\ stop_trace = <<>>
    /\ start_ret = "none"

\* scall: the operation, the branch it took, what the frame was relative to
\* the state before the call, and the values returned.
NoCall == [op |-> "none", path |-> "none", far |-> FALSE, deep |-> FALSE,
           confident |-> FALSE, had_state |-> FALSE,
           freq |-> 0, valid |-> FALSE, val |-> 0]

StabInitFrom(config) ==
    /\ stab = StabNew(config)
    /\ scall = NoCall

\* PitchAnalyzer(self.settings): the stabilizer and the first full reset.
AnInit ==
    /\ an = AnNew(DefaultSettings).an
    /\ acall = NoAnCall
    /\ band = BandNew(3, 1, 0)
    /\ ycall = NoYinCall

Init ==
    /\ DetInit
    /\ StabInitFrom(DefaultSettings)
    /\ AnInit

\* Variant of the capture callback that appends even to a full queue.
CallbackNoDrop(limit) ==
    /\ stream = "active"
    /\ captured < limit
    /\ captured' = captured + 1
    /\ IF ~is_running
       THEN /\ stream' = "inactive"
            /\ cb_result' = "complete"
            /\ UNCHANGED audio_queue
       ELSE /\ audio_queue' = Append(audio_queue, epoch)
            /\ cb_result' = "put"
            /\ UNCHANGED stream
    /\ UNCHANGED <<is_running, stop_event, pa, analysis_lock, analysis_thread,
                   tpc, tframe, tseen, cpc, cop, new_config, was_running,
                   settings, target_frequencies, an_dirty, an_epoch, epoch,
                   stop_trace, start_ret, svars, avars>>

\* ------------------------------------------------- capture callback thread
\* _pyaudio_callback: returns paComplete when not running, else try-put.
Callback(limit) ==
    /\ stream = "active"
    /\ captured < limit
    /\ captured' = captured + 1
    /\ IF ~is_running
       THEN /\ stream' = "inactive"
            /\ cb_result' = "complete"
            /\ UNCHANGED audio_queue
       ELSE /\ IF Len(audio_queue) < QueueMaxSize
               THEN /\ audio_queue' = Append(audio_queue, epoch)
                    /\ cb_result' = "put"
               ELSE /\ UNCHANGED audio_queue       \* queue.Full: pass
                    /\ cb_result' = "drop"
            /\ UNCHANGED stream
    /\ UNCHANGED <<is_running, stop_event, pa, analysis_lock, analysis_thread,
                   tpc, tframe, tseen, cpc, cop, new_config, was_running,
                   settings, target_frequencies, an_dirty, an_epoch, epoch,
                   stop_trace, start_ret, svars, avars>>

\* The backend delivers at most MaxFrames frames per session.
PyaudioCallback == Callback(MaxFrames)

\* The backend delivers frames until the queue has been full once more.
PyaudioCallbackFlood == Callback(QueueMaxSize + 2)

\* ------------------------------------------------------- analysis thread(s)
TUnch == <<is_running, stream, pa, analysis_thread, cpc, cop, new_config,
           was_running, epoch, captured, cb_result, stop_trace, start_ret,
           svars, avars>>

\* while not self.stop_event.is_set():
LoopCheck(t) ==
    /\ tpc[t] = "check"
    /\ tpc' = [tpc EXCEPT ![t] = IF stop_event THEN "dead" ELSE "get"]
    /\ UNCHANGED <<stop_event, analysis_lock, audio_queue, tframe, tseen,
                   settings, target_frequencies, an_dirty, an_epoch>>
    /\ UNCHANGED TUnch

\* raw_data = self.audio_queue.get(timeout=0.1); queue.Empty -> continue
QueueGet(t) ==
    /\ tpc[t] = "get"
    /\ IF audio_queue # <<>>
       THEN /\ tframe' = [tframe EXCEPT ![t] = Head(audio_queue)]
            /\ audio_queue' = Tail(audio_queue)
            /\ tpc' = [tpc EXCEPT ![t] = "acq"]
       ELSE /\ tpc' = [tpc EXCEPT ![t] = "check"]
            /\ UNCHANGED <<tframe, audio_queue>>
    /\ UNCHANGED <<stop_event, analysis_lock, tseen, settings,
                   target_frequencies, an_dirty, an_epoch>>
    /\ UNCHANGED TUnch

\* with self.analysis_lock:  (entry)
ProcessAcquire(t) ==
    /\ tpc[t] = "acq"
    /\ analysis_lock = LockFree
    /\ analysis_lock' = t
    /\ tpc' = [tpc EXCEPT ![t] = "proc"]
    /\ tseen' = [tseen EXCEPT ![t] =
                    [settings |-> settings, targets |-> target_frequencies]]
    /\ UNCHANGED <<stop_event, audio_queue, tframe, settings,
                   target_frequencies, an_dirty, an_epoch>>
    /\ UNCHANGED TUnch

\* Variant of the analysis step in which an exception raised by process
\* leaves the loop instead of being caught.
ProcessFrameUncaught(t) ==
    /\ tpc[t] = "proc"
    /\ analysis_lock = t
    /\ \E raised \in BOOLEAN :
          tpc' = [tpc EXCEPT ![t] = IF raised THEN "dead" ELSE "cb"]
    /\ an_dirty' = TRUE
    /\ analysis_lock' = LockFree
    /\ tseen' = [tseen EXCEPT ![t] = NoSeen]
    /\ UNCHANGED <<stop_event, audio_queue, tframe, settings,
                   target_frequencies, an_epoch>>
    /\ UNCHANGED TUnch

\* self.analyzer.process(raw_data), then the lock is released by the with
\* statement, also when process raises: control then goes to the except
\* clause of the loop body.
ProcessFrame(t) ==
    /\ tpc[t] = "proc"
    /\ analysis_lock = t
    /\ \E raised \in BOOLEAN :
          tpc' = [tpc EXCEPT ![t] = IF raised THEN "caught" ELSE "cb"]
    /\ an_dirty' = TRUE
    /\ analysis_lock' = LockFree
    /\ tseen' = [tseen EXCEPT ![t] = NoSeen]
    /\ UNCHANGED <<stop_event, audio_queue, tframe, settings,
                   target_frequencies, an_epoch>>
    /\ UNCHANGED TUnch

\* if self.ui_callback: self.ui_callback(...); self.audio_queue.task_done()
\* (a callback is installed); the callback may raise, which skips task_done.
UiCallback(t) ==
    /\ tpc[t] = "cb"
    /\ \E raised \in BOOLEAN :
          IF raised
          THEN /\ tpc' = [tpc EXCEPT ![t] = "caught"]
               /\ UNCHANGED tframe
          ELSE /\ tpc' = [tpc EXCEPT ![t] = "check"]
               /\ tframe' = [tframe EXCEPT ![t] = NoFrame]
    /\ UNCHANGED <<stop_event, analysis_lock, audio_queue, tseen, settings,
                   target_frequencies, an_dirty, an_epoch>>
    /\ UNCHANGED TUnch

\* except Exception as e: logging.error(...); pass  -- back to the loop test
Caught(t) ==
    /\ tpc[t] = "caught"
    /\ tpc' = [tpc EXCEPT ![t] = "check"]
    /\ tframe' = [tframe EXCEPT ![t] = NoFrame]
    /\ UNCHANGED <<stop_event, analysis_lock, audio_queue, tseen, settings,
                   target_frequencies, an_dirty, an_epoch>>
    /\ UNCHANGED TUnch

AnalysisStep(t) ==
    \/ LoopCheck(t)
    \/ QueueGet(t)
    \/ ProcessAcquire(t)
    \/ ProcessFrame(t)
    \/ UiCallback(t)
    \/ Caught(t)

\* --------------------------------------------------------- controller thread
CUnch == <<tframe, tseen, cb_result, svars, avars>>
CUnchF == <<tframe, tseen, cb_result, captured, svars, avars>>

\* Leaving stop_stream / start_stream: back into update_settings or to idle.
AfterStop == IF cop = "update" THEN "upd_lock" ELSE "idle"

\* A control call returns.
Return ==
    /\ cpc' = "idle"
    /\ cop' = "none"
    /\ new_config' = NoConfig
    /\ was_running' = FALSE

\* --- start_stream -----------------------------------------------------------
StartStreamCall ==
    /\ cpc = "idle"
    /\ stream = "active" \/ epoch < MaxStarts
    /\ cpc' = "start_enter"
    /\ cop' = "start"
    /\ UNCHANGED <<is_running, stop_event, stream, pa, analysis_lock,
                   audio_queue, analysis_thread, tpc, new_config, was_running,
                   settings, target_frequencies, an_dirty, an_epoch, epoch,
                   stop_trace>>
    /\ UNCHANGED CUnchF
    /\ UNCHANGED start_ret

\* Variant of start_stream without the test for an active stream.
StartEnterNoCheck ==
    /\ cpc = "start_enter"
    /\ pa' = TRUE
    /\ is_running' = TRUE
    /\ stop_event' = FALSE
    /\ epoch' = MinOf(epoch + 1, MaxStarts)
    /\ captured' = 0
    /\ cpc' = "start_lock"
    /\ UNCHANGED <<cop, new_config, was_running, start_ret>>
    /\ UNCHANGED <<stream, analysis_lock, audio_queue, analysis_thread, tpc,
                   settings, target_frequencies, an_dirty, an_epoch,
                   stop_trace>>
    /\ UNCHANGED CUnch

\* if self.stream and self.stream.is_active(): return
\* self.pa = PyAudio(); self._is_running = True; self.stop_event.clear()
StartEnter ==
    /\ cpc = "start_enter"
    /\ IF stream = "active"
       THEN /\ Return
            /\ start_ret' = "None"
            /\ UNCHANGED <<pa, is_running, stop_event, epoch, captured>>
       ELSE /\ pa' = TRUE
            /\ is_running' = TRUE
            /\ stop_event' = FALSE
            /\ epoch' = epoch + 1
            /\ captured' = 0
            /\ cpc' = "start_lock"
            /\ UNCHANGED <<cop, new_config, was_running, start_ret>>
    /\ UNCHANGED <<stream, analysis_lock, audio_queue, analysis_thread, tpc,
                   settings, target_frequencies, an_dirty, an_epoch,
                   stop_trace>>
    /\ UNCHANGED CUnch

\* with self.analysis_lock:  (entry)
StartLock ==
    /\ cpc = "start_lock"
    /\ analysis_lock = LockFree
    /\ analysis_lock' = Controller
    /\ cpc' = "start_reset"
    /\ UNCHANGED <<is_running, stop_event, stream, pa, audio_queue,
                   analysis_thread, tpc, cop, new_config, was_running,
                   settings, target_frequencies, an_dirty, an_epoch, epoch,
                   stop_trace>>
    /\ UNCHANGED CUnchF
    /\ UNCHANGED start_ret

\* Variant of start_stream that keeps analysis_lock after reset_state, into
\* the clearing of the queue.
StartResetKeepLock ==
    /\ cpc = "start_reset"
    /\ analysis_lock = Controller
    /\ an_dirty' = FALSE
    /\ an_epoch' = epoch
    /\ cpc' = "start_clear"
    /\ UNCHANGED <<is_running, stop_event, stream, pa, audio_queue,
                   analysis_thread, tpc, cop, new_config, was_running,
                   settings, target_frequencies, epoch, stop_trace,
                   analysis_lock>>
    /\ UNCHANGED CUnchF
    /\ UNCHANGED start_ret

\* self.analyzer.reset_state(), lock released
StartReset ==
    /\ cpc = "start_reset"
    /\ analysis_lock = Controller
    /\ an_dirty' = FALSE
    /\ an_epoch' = epoch
    /\ analysis_lock' = LockFree
    /\ cpc' = "start_clear"
    /\ UNCHANGED <<is_running, stop_event, stream, pa, audio_queue,
                   analysis_thread, tpc, cop, new_config, was_running,
                   settings, target_frequencies, epoch, stop_trace>>
    /\ UNCHANGED CUnchF
    /\ UNCHANGED start_ret

\* with self.audio_queue.mutex: self.audio_queue.queue.clear()
StartClearQueue ==
    /\ cpc = "start_clear"
    /\ audio_queue' = <<>>
    /\ cpc' = "start_thread"
    /\ UNCHANGED <<is_running, stop_event, stream, pa, analysis_lock,
                   analysis_thread, tpc, cop, new_config, was_running,
                   settings, target_frequencies, an_dirty, an_epoch, epoch,
                   stop_trace>>
    /\ UNCHANGED CUnchF
    /\ UNCHANGED start_ret

\* self.analysis_thread = Thread(target=self._analysis_loop); .start()
StartThread ==
    /\ cpc = "start_thread"
    /\ tpc' = [tpc EXCEPT ![epoch] = "check"]
    /\ analysis_thread' = epoch
    /\ cpc' = "start_open"
    /\ UNCHANGED <<is_running, stop_event, stream, pa, analysis_lock,
                   audio_queue, cop, new_config, was_running, settings,
                   target_frequencies, an_dirty, an_epoch, epoch, stop_trace>>
    /\ UNCHANGED CUnchF
    /\ UNCHANGED start_ret

\* self.stream = self.pa.open(...); self.stream.start_stream()
StartOpenOk ==
    /\ cpc = "start_open"
    /\ stream' = "active"
    /\ Return
    /\ start_ret' = "None"
    /\ UNCHANGED <<is_running, stop_event, pa, analysis_lock, audio_queue,
                   analysis_thread, tpc, settings, target_frequencies,
                   an_dirty, an_epoch, epoch, stop_trace>>
    /\ UNCHANGED CUnchF

\* except Exception: self._is_running = False
StartOpenFail ==
    /\ cpc = "start_open"
    /\ is_running' = FALSE
    /\ Return
    /\ start_ret' = "None"
    /\ UNCHANGED <<stop_event, stream, pa, analysis_lock, audio_queue,
                   analysis_thread, tpc, settings, target_frequencies,
                   an_dirty, an_epoch, epoch, stop_trace>>
    /\ UNCHANGED CUnchF

\* --- stop_stream ------------------------------------------------------------
StopStreamCall ==
    /\ cpc = "idle"
    /\ cpc' = "stop_enter"
    /\ cop' = "stop"
    /\ UNCHANGED <<is_running, stop_event, stream, pa, analysis_lock,
                   audio_queue, analysis_thread, tpc, new_config, was_running,
                   settings, target_frequencies, an_dirty, an_epoch, epoch,
                   stop_trace>>
    /\ UNCHANGED CUnchF
    /\ UNCHANGED start_ret

\* self._is_running = False; self.stop_event.set()
StopSignal ==
    /\ cpc = "stop_enter"
    /\ is_running' = FALSE
    /\ stop_event' = TRUE
    /\ stop_trace' = <<"signal">>
    /\ cpc' = "stop_release"
    /\ UNCHANGED <<stream, pa, analysis_lock, audio_queue, analysis_thread,
                   tpc, cop, new_config, was_running, settings,
                   target_frequencies, an_dirty, an_epoch, epoch>>
    /\ UNCHANGED CUnchF
    /\ UNCHANGED start_ret

\* if self.stream: stop, close, stream = None; if self.pa: terminate, pa = None
StopRelease ==
    /\ cpc = "stop_release"
    /\ stream' = "none"
    /\ pa' = FALSE
    /\ stop_trace' = IF stream # "none" \/ pa
                     THEN Append(stop_trace, "release") ELSE stop_trace
    /\ cpc' = "stop_join"
    /\ UNCHANGED <<is_running, stop_event, analysis_lock, audio_queue,
                   analysis_thread, tpc, cop, new_config, was_running,
                   settings, target_frequencies, an_dirty, an_epoch, epoch>>
    /\ UNCHANGED CUnchF
    /\ UNCHANGED start_ret

\* if self.analysis_thread and self.analysis_thread.is_alive(): join(0.5)
\* The thread is not alive (any more): no join, or the join returns.
StopJoinDone ==
    /\ cpc = "stop_join"
    /\ IF analysis_thread = NoThread THEN TRUE ELSE ~Alive(analysis_thread)
    /\ stop_trace' = IF analysis_thread # NoThread
                     THEN Append(stop_trace, "join") ELSE stop_trace
    /\ cpc' = AfterStop
    /\ IF cop = "update"
       THEN UNCHANGED <<cop, new_config, was_running>>
       ELSE /\ cop' = "none"
            /\ UNCHANGED <<new_config, was_running>>
    /\ UNCHANGED <<is_running, stop_event, stream, pa, analysis_lock,
                   audio_queue, analysis_thread, tpc, settings,
                   target_frequencies, an_dirty, an_epoch, epoch>>
    /\ UNCHANGED CUnchF
    /\ UNCHANGED start_ret

\* join(timeout=0.5) returns after the timeout with the thread still alive:
\* the thread is waiting for the lock, analysing a frame or inside
\* ui_callback (the stop check and the 0.1 s queue wait end within the 0.5 s).
StopJoinTimeout ==
    /\ cpc = "stop_join"
    /\ analysis_thread # NoThread
    /\ tpc[analysis_thread] \in {"acq", "proc", "cb"}
    /\ stop_trace' = Append(stop_trace, "join")
    /\ cpc' = AfterStop
    /\ IF cop = "update"
       THEN UNCHANGED <<cop, new_config, was_running>>
       ELSE /\ cop' = "none"
            /\ UNCHANGED <<new_config, was_running>>
    /\ UNCHANGED <<is_running, stop_event, stream, pa, analysis_lock,
                   audio_queue, analysis_thread, tpc, settings,
                   target_frequencies, an_dirty, an_epoch, epoch>>
    /\ UNCHANGED CUnchF
    /\ UNCHANGED start_ret

\* --- update_settings --------------------------------------------------------
\* needs_restart = any(key in new_config for key in restart_keys)
\* if needs_restart: was_running = self._is_running; if was_running: stop
UpdateSettingsCall(upd) ==
    /\ cpc = "idle"
    /\ NeedsRestart(upd) /\ is_running => epoch < MaxStarts
    /\ cop' = "update"
    /\ new_config' = upd
    /\ was_running' = (NeedsRestart(upd) /\ is_running)
    /\ cpc' = IF NeedsRestart(upd) /\ is_running
              THEN "stop_enter" ELSE "upd_lock"
    /\ UNCHANGED <<is_running, stop_event, stream, pa, analysis_lock,
                   audio_queue, analysis_thread, tpc, settings,
                   target_frequencies, an_dirty, an_epoch, epoch, stop_trace>>
    /\ UNCHANGED CUnchF
    /\ UNCHANGED start_ret

\* Variant of update_settings' lock step that does not wait for the lock.
UpdateLockNoWait ==
    /\ cpc = "upd_lock"
    /\ analysis_lock' = Controller
    /\ cpc' = "upd_apply"
    /\ UNCHANGED <<is_running, stop_event, stream, pa, audio_queue,
                   analysis_thread, tpc, cop, new_config, was_running,
                   settings, target_frequencies, an_dirty, an_epoch, epoch,
                   stop_trace>>
    /\ UNCHANGED CUnchF
    /\ UNCHANGED start_ret

\* with self.analysis_lock:  (entry, both branches)
UpdateLock ==
    /\ cpc = "upd_lock"
    /\ analysis_lock = LockFree
    /\ analysis_lock' = Controller
    /\ cpc' = "upd_apply"
    /\ UNCHANGED <<is_running, stop_event, stream, pa, audio_queue,
                   analysis_thread, tpc, cop, new_config, was_running,
                   settings, target_frequencies, an_dirty, an_epoch, epoch,
                   stop_trace>>
    /\ UNCHANGED CUnchF
    /\ UNCHANGED start_ret

\* Variant of update_settings that never restarts the stream.
UpdateApplyNoRestart ==
    /\ cpc = "upd_apply"
    /\ analysis_lock = Controller
    /\ settings' = Merge(settings, new_config)
    /\ an_dirty' = IF NeedsRestart(new_config) THEN FALSE ELSE an_dirty
    /\ analysis_lock' = LockFree
    /\ Return
    /\ UNCHANGED <<is_running, stop_event, stream, pa, audio_queue,
                   analysis_thread, tpc, target_frequencies, an_epoch, epoch,
                   stop_trace>>
    /\ UNCHANGED CUnchF
    /\ UNCHANGED start_ret

\* self.analyzer.update_settings(new_config), lock released;
\* if was_running: time.sleep(0.1); self.start_stream()
UpdateApply ==
    /\ cpc = "upd_apply"
    /\ analysis_lock = Controller
    /\ settings' = Merge(settings, new_config)
    /\ an_dirty' = IF NeedsRestart(new_config) THEN FALSE ELSE an_dirty
    /\ analysis_lock' = LockFree
    /\ IF was_running
       THEN /\ cpc' = "start_enter"
            /\ UNCHANGED <<cop, new_config, was_running>>
       ELSE Return
    /\ UNCHANGED <<is_running, stop_event, stream, pa, audio_queue,
                   analysis_thread, tpc, target_frequencies, an_epoch, epoch,
                   stop_trace>>
    /\ UNCHANGED CUnchF
    /\ UNCHANGED start_ret

\* --- set_tuning_frequencies -------------------------------------------------
SetTuningCall ==
    /\ cpc = "idle"
    /\ cop' = "tuning"
    /\ cpc' = "tune_lock"
    /\ UNCHANGED <<is_running, stop_event, stream, pa, analysis_lock,
                   audio_queue, analysis_thread, tpc, new_config, was_running,
                   settings, target_frequencies, an_dirty, an_epoch, epoch,
                   stop_trace>>
    /\ UNCHANGED CUnchF
    /\ UNCHANGED start_ret

TuningLock ==
    /\ cpc = "tune_lock"
    /\ analysis_lock = LockFree
    /\ analysis_lock' = Controller
    /\ cpc' = "tune_apply"
    /\ UNCHANGED <<is_running, stop_event, stream, pa, audio_queue,
                   analysis_thread, tpc, cop, new_config, was_running,
                   settings, target_frequencies, an_dirty, an_epoch, epoch,
                   stop_trace>>
    /\ UNCHANGED CUnchF
    /\ UNCHANGED start_ret

\* self.analyzer.set_tuning_frequencies(frequencies), lock released
TuningApply ==
    /\ cpc = "tune_apply"
    /\ analysis_lock = Controller
    /\ \E f \in TuningSets : target_frequencies' = f
    /\ analysis_lock' = LockFree
    /\ Return
    /\ UNCHANGED <<is_running, stop_event, stream, pa, audio_queue,
                   analysis_thread, tpc, settings, an_dirty, an_epoch, epoch,
                   stop_trace>>
    /\ UNCHANGED CUnchF
    /\ UNCHANGED start_ret

ControllerStep ==
    \/ StartStreamCall \/ StartEnter \/ StartLock \/ StartReset
    \/ StartClearQueue \/ StartThread \/ StartOpenOk \/ StartOpenFail
    \/ StopStreamCall \/ StopSignal \/ StopRelease
    \/ StopJoinDone \/ StopJoinTimeout
    \/ \E upd \in ConfigUpdates : UpdateSettingsCall(upd)
    \/ UpdateLock \/ UpdateApply
    \/ SetTuningCall \/ TuningLock \/ TuningApply

\* Steps of a control call already begun (not the choice to make a call).
ControllerRun ==
    \/ StartEnter \/ StartLock \/ StartReset \/ StartClearQueue
    \/ StartThread \/ StartOpenOk \/ StartOpenFail
    \/ StopSignal \/ StopRelease \/ StopJoinDone \/ StopJoinTimeout
    \/ UpdateLock \/ UpdateApply \/ TuningLock \/ TuningApply

Next ==
    \/ PyaudioCallback
    \/ \E t \in Threads : AnalysisStep(t)
    \/ ControllerStep

Spec == Init /\ [][Next]_vars

\* Running code keeps running: an analysis thread that can take a step again
\* and again eventually takes it (it is not starved of analysis_lock for
\* ever), and a control call that was begun runs to its end.
FairSpec ==
    /\ Spec
    /\ \A t \in Threads : SF_vars(AnalysisStep(t))
    /\ WF_vars(ControllerRun)

\* The detector under a backend that outruns the analysis thread: capture,
\* analysis and start/stop only.
NextFlood ==
    \/ PyaudioCallbackFlood
    \/ \E t \in Threads : AnalysisStep(t)
    \/ StartStreamCall \/ StartEnter \/ StartLock \/ StartReset
    \/ StartClearQueue \/ StartThread \/ StartOpenOk \/ StartOpenFail
    \/ StopStreamCall \/ StopSignal \/ StopRelease
    \/ StopJoinDone \/ StopJoinTimeout

SpecFlood == Init /\ [][NextFlood]_vars

\* ===================================================================== C1
\* C1: the capture callback never blocks (it can run whenever the stream is
\* active, whatever the queue, the lock and the other threads do); a running
\* callback appends the frame when the queue holds fewer than 10 frames and
\* drops it, keeping the queued frames, when the queue is full; it returns
\* without touching the analysis threads, the lock or the controller; the
\* queue never holds more than 10 frames.
C1_QueueBackpressure ==
    /\ [](Len(audio_queue) <= QueueMaxSize)
    /\ []((stream = "active" /\ captured < QueueMaxSize + 2)
              => ENABLED PyaudioCallbackFlood)
    /\ [][captured' = captured + 1 =>
            /\ is_running /\ Len(audio_queue) < QueueMaxSize
                  => audio_queue' = Append(audio_queue, epoch)
            /\ is_running /\ Len(audio_queue) = QueueMaxSize
                  => audio_queue' = audio_queue
            /\ ~is_running => audio_queue' = audio_queue
            /\ tpc' = tpc
            /\ analysis_lock' = analysis_lock
            /\ cpc' = cpc]_vars

\* A frame was dropped on a full queue while an analysis thread is alive.
C1_Witness ==
    /\ cb_result = "drop"
    /\ Len(audio_queue) = QueueMaxSize
    /\ \E t \in Threads : Alive(t)

\* ===================================================================== C2
\* Positions at which a thread is inside an analyzer operation.
CtlInAnalyzer == cpc \in {"start_reset", "upd_apply", "tune_apply"}
InProcess(t) == tpc[t] = "proc"

\* C2: process never overlaps with update_settings, set_tuning_frequencies
\* or reset_state (nor with another process); each of the four runs only
\* while its caller holds analysis_lock; and the configuration and the
\* target set a frame began with are still in force while it is processed.
C2_MutualExclusion ==
    /\ \A t \in Threads : InProcess(t) =>
          /\ analysis_lock = t
          /\ ~CtlInAnalyzer
          /\ \A u \in Threads : InProcess(u) => u = t
          /\ tseen[t] = [settings |-> settings, targets |-> target_frequencies]
    /\ CtlInAnalyzer => analysis_lock = Controller

\* A frame is being processed while update_settings waits for the lock.
C2_Witness ==
    \E t \in Threads : InProcess(t) /\ cpc = "upd_lock"

\* ===================================================================== C6
\* C6: within a stop_stream call the audio resources are released only
\* after the analysis thread has been joined.
C6_JoinBeforeRelease ==
    \A i \in 1..Len(stop_trace) :
        stop_trace[i] = "release" =>
            \E j \in 1..(i - 1) : stop_trace[j] = "join"

\* ===================================================================== C7
\* C7: once the stop signal is set while an analysis thread is alive, that
\* thread eventually exits.
C7_Cancellation ==
    \A t \in Threads : (stop_event /\ Alive(t)) ~> ~Alive(t)

\* The thread does exit unless a later start_stream clears the signal first.
C7_ExitsUnlessCleared ==
    \A t \in Threads : (stop_event /\ Alive(t)) ~> (~Alive(t) \/ ~stop_event)

\* ===================================================================== C8
StartPhase == cpc \in {"start_enter", "start_lock", "start_reset",
                       "start_clear", "start_thread", "start_open"}

\* C8: in a restarting update_settings the configuration is applied only
\* when capture is stopped and no analysis thread of the old session is
\* alive, and capture is restarted only after the configuration is applied.
C8_RestartOrdering ==
    /\ (cop = "update" /\ was_running /\ cpc = "upd_apply") =>
          /\ stream = "none"
          /\ \A t \in Threads : ~Alive(t)
    /\ (cop = "update" /\ StartPhase) =>
          settings = Merge(settings, new_config)

\* What the code does guarantee: capture is stopped before the configuration
\* is applied, and the configuration is applied before capture restarts.
C8_CaptureOrdering ==
    /\ (cop = "update" /\ was_running /\ cpc = "upd_apply") =>
          stream = "none" /\ ~is_running
    /\ (cop = "update" /\ StartPhase) =>
          settings = Merge(settings, new_config)

\* ============================================================== SpecStab
\* The NoteStabilizer alone, driven by every frame of a small input space.
RawFreqs == {0, 100, 104, 110, 220}
Confidences == {5, 15, 25}
Amplitudes == {5, 50, 100, 110, 200}
RmsThresholds == {0, 10}
CentsValues == {30}
StabConfigs == { [yin_threshold |-> 20, smoothing |-> 2],
                 [yin_threshold |-> 10, smoothing |-> 1] }

StabUnch == <<dvars, avars>>

StabProcessStep ==
    /\ \E raw_freq \in RawFreqs, confidence \in Confidences,
          amplitude \in Amplitudes, threshold_rms \in RmsThresholds :
          LET r == StabProcess(stab, raw_freq, confidence, amplitude,
                               threshold_rms)
          IN /\ r.st.frames_since_attack <= MaxFramesSinceAttack
             /\ stab' = r.st
             /\ scall' = [op |-> "process",
                          path |-> StabPath(stab, raw_freq, amplitude,
                                            threshold_rms),
                          far |-> /\ stab.last_stable_freq > 0
                                  /\ ~IsSameNote(raw_freq,
                                                 stab.last_stable_freq),
                          deep |-> stab.consecutive_decay_frames > 5,
                          confident |-> confidence < stab.yin_threshold,
                          had_state |-> /\ stab.last_stable_freq > 0
                                        /\ stab.last_valid_cents # 0
                                        /\ stab.cents_history # <<>>,
                          freq |-> r.freq, valid |-> r.valid, val |-> 0]
    /\ UNCHANGED StabUnch

\* smooth_cents(cents) for a deviation out of values.
SmoothCentsOver(values) ==
    /\ \E cents \in values :
          LET r == StabSmoothCents(stab, cents)
          IN /\ stab' = r.st
             /\ scall' = [NoCall EXCEPT !.op = "smooth", !.val = r.val]
    /\ UNCHANGED StabUnch

StabSmoothStep == SmoothCentsOver(CentsValues)

StabResetStep ==
    /\ stab' = StabReset(stab)
    /\ scall' = [NoCall EXCEPT !.op = "reset"]
    /\ UNCHANGED StabUnch

StabInit ==
    /\ DetInit
    /\ AnInit
    /\ \E config \in StabConfigs : StabInitFrom(config)

StabNext == StabProcessStep \/ StabSmoothStep \/ StabResetStep

SpecStab == StabInit /\ [][StabNext]_vars

\* Every frame of the input space, as the arguments of process.
StabInputs ==
    [raw_freq : RawFreqs, confidence : Confidences, amplitude : Amplitudes,
     threshold_rms : RmsThresholds]

StabResult(in) ==
    StabProcess(stab, in.raw_freq, in.confidence, in.amplitude,
                in.threshold_rms)

Silent(in) == in.amplitude < SilenceFloor(in.threshold_rms)

\* consecutive_decay_frames as the jump guard reads it in this frame.
DecayAt(in) ==
    StabCounters(stab, in.amplitude, in.threshold_rms).consecutive_decay_frames

\* Non-silent, not an attack, deep in decay, a stable frequency is locked and
\* the raw frequency is not within (0.94, 1.06) of it.
DeepDecayJump(in) ==
    /\ ~Silent(in)
    /\ ~IsAttack(stab, in.amplitude, in.threshold_rms)
    /\ DecayAt(in) > 5
    /\ stab.last_stable_freq > 0
    /\ ~IsSameNote(in.raw_freq, stab.last_stable_freq)

\* ===================================================================== C3
\* C3 as stated: in deep decay a raw frequency outside the same-note band
\* never changes last_stable_freq and the frame's output is the held
\* last_stable_freq.
C3_AsStated ==
    \A in \in StabInputs : DeepDecayJump(in) =>
        /\ StabResult(in).st.last_stable_freq = stab.last_stable_freq
        /\ StabResult(in).freq = stab.last_stable_freq

\* C3 amended: in deep decay a raw frequency outside the same-note band
\* never changes last_stable_freq, whatever its confidence; the frame's
\* output is the held last_stable_freq when the raw frequency is > 0, and
\* 0 (invalid) when the raw frequency is 0 (no estimate).
C3_JumpGuardDeepDecay ==
    \A in \in StabInputs : DeepDecayJump(in) =>
        /\ StabResult(in).st.last_stable_freq = stab.last_stable_freq
        /\ in.raw_freq > 0 =>
              /\ StabResult(in).freq = stab.last_stable_freq
              /\ StabResult(in).valid
        /\ in.raw_freq = 0 =>
              /\ StabResult(in).freq = 0
              /\ ~StabResult(in).valid

\* A confident jump was refused in deep decay: the output is the held value.
C3_Witness ==
    /\ scall.op = "process"
    /\ scall.path = "deep_decay"
    /\ scall.far
    /\ scall.confident
    /\ scall.valid
    /\ scall.freq = stab.last_stable_freq
    /\ stab.consecutive_decay_frames > 5

\* ===================================================================== C4
\* C4: on an attack frame a raw frequency > 0 with confidence below
\* yin_threshold is accepted: it becomes last_stable_freq and the output,
\* whatever last_stable_freq and the decay counter were.
C4_AttackAcceptance ==
    \A in \in StabInputs :
        (/\ IsAttack(stab, in.amplitude, in.threshold_rms)
         /\ in.raw_freq > 0
         /\ in.confidence < stab.yin_threshold) =>
            /\ StabResult(in).st.last_stable_freq = in.raw_freq
            /\ StabResult(in).freq = in.raw_freq
            /\ StabResult(in).valid

\* An attack after deep decay moved the locked frequency to a far one.
C4_Witness ==
    /\ scall.op = "process"
    /\ scall.path = "attack"
    /\ scall.far
    /\ scall.deep
    /\ scall.confident
    /\ scall.freq = stab.last_stable_freq
    /\ scall.valid

\* ===================================================================== C5
\* C5: a frame below the silence floor max(rms_threshold, 1) * 10 returns
\* (0, invalid) and leaves last_stable_freq = 0, last_valid_cents = 0 and
\* an empty cents_history, whatever the arguments and the state.
C5_Silence ==
    \A in \in StabInputs :
        in.amplitude < MaxOf(in.threshold_rms, 1) * 10 =>
            /\ StabResult(in).freq = 0
            /\ ~StabResult(in).valid
            /\ StabResult(in).st.last_stable_freq = 0
            /\ StabResult(in).st.last_valid_cents = 0
            /\ StabResult(in).st.cents_history = <<>>

\* A silent frame arrived while a frequency was locked and cents were held.
C5_Witness ==
    /\ scall.op = "process"
    /\ scall.path = "silent"
    /\ scall.had_state
    /\ stab.cents_history = <<>>
    /\ stab.last_stable_freq = 0

\* ============================================================ SpecAnalyzer
\* The PitchAnalyzer alone: the calls the detector makes on it, in any order.
MaxCalls == 4          \* analyzer calls in one behaviour

AnConfigUpdates ==
    { [k \in {"yin_threshold"} |-> 10],
      [k \in {"threshold"} |-> 20],
      [k \in {"smoothing"} |-> 2],
      [k \in {"latency_mode"} |-> "fast"],
      [k \in {"instrument_type"} |-> "bass"],
      [k \in {"high_quality"} |-> FALSE] }

\* Frames: a 110 Hz note whose CMNDF also dips (less deeply) at half the
\* period, a slightly sharp note, silence, a frame shorter than a
\* decimation block, a loud frame without periodicity, and a 220 Hz note
\* whose octave dips above the crossover of the two bands.
Frames ==
    { [len |-> 2048, amplitude |-> 200,
       dips |-> << [freq |-> 220, val |-> 15], [freq |-> 110, val |-> 5] >>],
      [len |-> 2048, amplitude |-> 200,
       dips |-> << [freq |-> 111, val |-> 5] >>],
      [len |-> 2048, amplitude |-> 5, dips |-> << >>],
      [len |-> 5, amplitude |-> 200,
       dips |-> << [freq |-> 110, val |-> 5] >>],
      [len |-> 2048, amplitude |-> 150, dips |-> << >>],
      [len |-> 2048, amplitude |-> 200,
       dips |-> << [freq |-> 440, val |-> 15], [freq |-> 220, val |-> 5] >>] }

AnUnch == <<is_running, stop_event, stream, pa, analysis_lock, audio_queue,
            analysis_thread, tpc, tframe, tseen, cpc, cop, new_config,
            was_running, an_dirty, an_epoch, epoch, captured, cb_result,
            stop_trace, start_ret, scall, band, ycall>>

AnUpdateStep ==
    /\ acall.n < MaxCalls
    /\ \E config \in AnConfigUpdates :
          LET r == AnUpdateSettings(an, stab, settings, config)
          IN /\ settings' = r.settings
             /\ an' = r.an
             /\ stab' = r.stab
             /\ acall' = [NoAnCall EXCEPT !.n = acall.n + 1,
                                          !.op = "update_settings",
                                          !.upd = config,
                                          !.written = ~an.buf_low.zero,
                                          !.ret = r.ret]
    /\ UNCHANGED <<target_frequencies, AnUnch>>

AnProcessStep ==
    /\ acall.n < MaxCalls
    /\ \E frame \in Frames :
          LET r == AnProcess(an, stab, settings, target_frequencies, frame)
          IN /\ an' = r.an
             /\ stab' = r.stab
             /\ acall' = [NoAnCall EXCEPT !.n = acall.n + 1,
                                          !.op = "process",
                                          !.low = r.low,
                                          !.high = r.high,
                                          !.raw = r.raw,
                                          !.out = r.out]
    /\ UNCHANGED <<settings, target_frequencies, AnUnch>>

AnResetStep ==
    /\ acall.n < MaxCalls
    /\ an' = AnResetState(an, stab).an
    /\ stab' = AnResetState(an, stab).stab
    /\ acall' = [NoAnCall EXCEPT !.n = acall.n + 1, !.op = "reset_state"]
    /\ UNCHANGED <<settings, target_frequencies, AnUnch>>

AnTuningStep ==
    /\ acall.n < MaxCalls
    /\ \E frequencies \in TuningSets :
          target_frequencies' = frequencies
    /\ acall' = [NoAnCall EXCEPT !.n = acall.n + 1,
                                 !.op = "set_tuning_frequencies"]
    /\ UNCHANGED <<settings, an, stab, AnUnch>>

AnNext == AnUpdateStep \/ AnProcessStep \/ AnResetStep \/ AnTuningStep

SpecAnalyzer == Init /\ [][AnNext]_vars

\* ===================================================================== C9
ThresholdKeys == {"yin_threshold", "threshold"}

\* An update_settings step whose update holds threshold keys only.
ThresholdUpdate ==
    /\ acall'.n = acall.n + 1
    /\ acall'.op = "update_settings"
    /\ DOMAIN acall'.upd \subseteq ThresholdKeys

\* The same buffers, pointers, remainders and estimator objects (the
\* threshold an estimator holds apart).
SameAllocation(a, b) ==
    [a EXCEPT !.proc_low.threshold = 0, !.proc_high.threshold = 0]
        = [b EXCEPT !.proc_low.threshold = 0, !.proc_high.threshold = 0]

\* The analyzer with both estimators holding the given threshold.
WithThreshold(a, threshold) ==
    [a EXCEPT !.proc_low.threshold = threshold,
              !.proc_high.threshold = threshold]

\* Whatever frame comes next, the fusion test, the stabilizer and the
\* silence floor use the values of cfg.
StagesUseSettings(a, st, cfg, tag) ==
    \A frame \in Frames :
        LET r == AnProcess(a, st, cfg, tag, frame)
        IN /\ r.used.yin_fusion = cfg.yin_threshold
           /\ r.used.yin_stab = cfg.yin_threshold
           /\ r.used.floor = MaxOf(cfg.threshold, 1) * 10

\* Whatever frame comes next, both band estimators search with the
\* yin_threshold of cfg, and the frame's result is the one estimators
\* holding that threshold give.
EstimatorsUseSettings(a, st, cfg, tag) ==
    \A frame \in Frames :
        LET r == AnProcess(a, st, cfg, tag, frame)
            e == AnProcess(WithThreshold(a, cfg.yin_threshold), st, cfg, tag,
                           frame)
        IN /\ r.used.yin_low = cfg.yin_threshold
           /\ r.used.yin_high = cfg.yin_threshold
           /\ r.raw = e.raw
           /\ r.out = e.out

\* C9: after an update_settings with threshold keys only, the next frame
\* uses the new values in both band estimators, in the fusion test, in the
\* stabilizer and in the silence floor, and nothing was reallocated.
C9_ThresholdAppliesImmediately ==
    [][ThresholdUpdate =>
          /\ SameAllocation(an', an)
          /\ StagesUseSettings(an', stab', settings', target_frequencies')
          /\ EstimatorsUseSettings(an', stab', settings',
                                   target_frequencies')]_vars

\* What the code does guarantee: everything but the band estimators.
C9_ExceptEstimators ==
    [][ThresholdUpdate =>
          /\ an' = an
          /\ StagesUseSettings(an', stab', settings',
                               target_frequencies')]_vars

\* ==================================================================== C10
\* An update_settings step.
UpdateStep ==
    /\ acall'.n = acall.n + 1
    /\ acall'.op = "update_settings"

\* Both buffers zero-filled with the length the settings ask for, pointers
\* 0, remainders empty, estimators built from the settings, stabilizer in
\* its reset state.
FullyReset(a, st, cfg) ==
    /\ a.buf_low = [size |-> 2 * (BaseSamples(cfg.latency_mode) \div a.dec_low),
                    zero |-> TRUE]
    /\ a.buf_high = [size |-> 2 * (BaseSamples(cfg.latency_mode)
                                       \div a.dec_high),
                     zero |-> TRUE]
    /\ a.dec_low = (IF cfg.instrument_type = "bass" THEN 10 ELSE 8)
    /\ a.ptr_low = 0 /\ a.ptr_high = 0
    /\ a.rem_low = 0 /\ a.rem_high = 0
    /\ a.proc_low.threshold = cfg.yin_threshold
    /\ a.proc_high.threshold = cfg.yin_threshold
    /\ a.proc_low.dec = a.dec_low
    /\ a.proc_high.dec = a.dec_high
    /\ st.last_stable_freq = 0
    /\ st.prev_amplitude = 0
    /\ st.frames_since_attack = 0
    /\ st.consecutive_decay_frames = 0
    /\ st.last_valid_cents = 0
    /\ st.cents_history = <<>>

C11_ExceptionCaught ==
    /\ [](\A t \in Threads :
            tpc[t] = "caught" => analysis_lock # t /\ ENABLED Caught(t))
    /\ [][\A t \in Threads :
            /\ (tpc[t] = "proc" /\ tpc'[t] # "proc")
                  => tpc'[t] \in {"cb", "caught"} /\ analysis_lock' = LockFree
            /\ (tpc[t] = "cb" /\ tpc'[t] # "cb")
                  => tpc'[t] \in {"check", "caught"}
            /\ (tpc[t] = "caught" /\ tpc'[t] # "caught")
                  => tpc'[t] = "check"
            /\ (tpc[t] = "check" /\ tpc'[t] # "check")
                  => tpc'[t] = (IF stop_event THEN "dead" ELSE "get")
            /\ (tpc[t] = "get" /\ tpc'[t] # "get" /\ audio_queue # <<>>)
                  => tpc'[t] = "acq" /\ tframe'[t] = Head(audio_queue)
            /\ (tpc[t] = "acq" /\ tpc'[t] # "acq")
                  => tpc'[t] = "proc"
            /\ (tpc[t] # "dead" /\ tpc'[t] = "dead")
                  => tpc[t] = "check" /\ stop_event]_vars

\* The only analysis thread of a running session is in the except clause
\* while further frames wait in the queue and no stop signal is set.
C11_Witness ==
    \E t \in Threads :
        /\ tpc[t] = "caught"
        /\ analysis_thread = t
        /\ \A u \in Threads : u # t => ~Alive(u)
        /\ audio_queue # <<>>
        /\ is_running
        /\ ~stop_event

\* ==================================================================== C12
\* C12: when opening the capture stream fails, the start_stream call ends by
\* raising to its caller (and only then: a start that opened the stream
\* returns normally), and _is_running is false afterwards.
C12_StartFailureSurfaced ==
    [][(cpc = "start_open" /\ cpc' # "start_open") =>
          /\ (stream' # "active") <=> (start_ret' = "raised")
          /\ (stream' # "active") => ~is_running']_vars

\* ============================================================ SpecWindow
\* One band of the analyzer on sample values: frames of a few raw samples
\* are fed through _update_buffer, with allocations and resets in between.
MaxSamples == 14       \* raw samples fed to the band in one behaviour

WindowSizes == {2, 3}
DecFactors == {1, 2}
FrameLens == {1, 2, 3, 7}

BandUnch == <<dvars, svars, an, acall, ycall>>

BandFeedStep ==
    /\ \E len \in FrameLens :
          /\ band.fed + len <= MaxSamples
          /\ band' = BandFeed(band, len)
    /\ UNCHANGED BandUnch

BandResetStep ==
    /\ band.op # "reset"
    /\ band' = BandReset(band)
    /\ UNCHANGED BandUnch

BandAllocStep ==
    /\ band.op # "alloc"
    /\ \E size \in WindowSizes, dec_factor \in DecFactors :
          band' = BandNew(size, dec_factor, band.fed)
    /\ UNCHANGED BandUnch

WindowNext == BandFeedStep \/ BandResetStep \/ BandAllocStep

SpecWindow == Init /\ [][WindowNext]_vars

\* ==================================================================== C13
\* The j-th decimated sample since the last allocation or reset: the mean
\* of the j-th block of dec raw samples.
Decimated(b, j) == 2 * b.base + (2 * j - 1) * b.dec + 1

\* The N most recent decimated samples in arrival order, zeros in front
\* while fewer than N have arrived.
RecentSamples(b) ==
    LET N == Len(b.buf) \div 2
        arrived == (b.fed - b.base) \div b.dec
    IN [i \in 1..N |-> IF arrived - N + i >= 1
                       THEN Decimated(b, arrived - N + i) ELSE 0]

\* C13: after any sequence of buffer updates that follows an allocation or
\* a reset, the window handed to the estimator is exactly the N most recent
\* decimated samples of the band in arrival order (N = half the buffer
\* length), with zeros in the leading positions while fewer than N samples
\* have arrived; the samples not yet decimated are carried, in order.
C13_SlidingWindow ==
    /\ band.op = "feed" => band.out = RecentSamples(band)
    /\ band.rem = [i \in 1..((band.fed - band.base) % band.dec) |->
                      2 * (band.fed - ((band.fed - band.base) % band.dec) + i)]

\* A window of three decimated samples that wrapped around the end of the
\* buffer after a reset, with one raw sample carried.
C13_Witness ==
    /\ band.op = "feed"
    /\ band.dec = 2
    /\ Len(band.buf) = 6
    /\ band.base > 0
    /\ (band.fed - band.base) \div 2 > 3
    /\ band.ptr # 0
    /\ Len(band.rem) = 1

\* ==================================================================== C14
\* Estimates a band can return: frequencies around the two crossover
\* limits, confidences around the two values of yin_threshold.
BandEstimates ==
    [freq : {0, 149, 150, 350, 351}, conf : {5, 15, 25}] \cup {NotFound}

\* C14: with a band valid iff its confidence < yin_threshold and its
\* frequency > 0, the fused estimate is, when both bands are valid, the high
\* band if freqH > 350, else the low band if freqL < 150, else the band
\* with the lower confidence (the high band when they are equal); when one
\* band is valid, that band; when none is, frequency 0 with confidence 1.0.
\* process fuses the two estimates of the frame in this way.
C14_FusionRule ==
    LET yin_threshold == CfgGet(settings, "yin_threshold", DefaultYinThreshold)
        Valid(b) == b.conf < yin_threshold /\ b.freq > 0
        Rule(L, H, fused) ==
            /\ (Valid(L) /\ Valid(H) /\ H.freq > 350) => fused = H
            /\ (Valid(L) /\ Valid(H) /\ ~(H.freq > 350) /\ L.freq < 150)
                  => fused = L
            /\ (Valid(L) /\ Valid(H) /\ ~(H.freq > 350) /\ ~(L.freq < 150))
                  => /\ L.conf < H.conf => fused = L
                     /\ H.conf < L.conf => fused = H
                     /\ H.conf = L.conf => fused = H
            /\ (Valid(L) /\ ~Valid(H)) => fused = L
            /\ (Valid(H) /\ ~Valid(L)) => fused = H
            /\ (~Valid(L) /\ ~Valid(H)) => fused = [freq |-> 0, conf |-> 100]
    IN /\ \A L \in BandEstimates, H \in BandEstimates :
             Rule(L, H, Fuse(L, H, yin_threshold))
       /\ acall.op = "process" => Rule(acall.low, acall.high, acall.raw)

\* A frame was processed in which both bands were valid, the low band with
\* the better confidence, and the high band won because it was above 350 Hz.
C14_Witness ==
    /\ acall.op = "process"
    /\ acall.low = [freq |-> 220, conf |-> 5]
    /\ acall.high = [freq |-> 440, conf |-> 15]
    /\ acall.raw = acall.high

\* ==================================================================== C15
\* C15 as stated: for every non-silent frame process returns the value
\* last_stable_freq has after the frame's update, with the validity flag
\* true iff that value is > 0.
C15_AsStated ==
    \A in \in StabInputs : ~Silent(in) =>
        /\ StabResult(in).freq = StabResult(in).st.last_stable_freq
        /\ StabResult(in).valid = (StabResult(in).st.last_stable_freq > 0)

\* C15 amended: for every non-silent frame with a raw frequency > 0 process
\* returns the value last_stable_freq has after the frame's update (the
\* newly accepted or the held frequency), with the validity flag true iff
\* that value is > 0; for a non-silent frame without an estimate (raw
\* frequency 0) it returns 0 and false and leaves last_stable_freq as it was.
C15_StabilizerOutput ==
    \A in \in StabInputs : ~Silent(in) =>
        /\ in.raw_freq > 0 =>
              /\ StabResult(in).freq = StabResult(in).st.last_stable_freq
              /\ StabResult(in).valid
                    = (StabResult(in).st.last_stable_freq > 0)
        /\ in.raw_freq = 0 =>
              /\ StabResult(in).freq = 0
              /\ ~StabResult(in).valid
              /\ StabResult(in).st.last_stable_freq = stab.last_stable_freq

\* A loud frame without an estimate arrived while a frequency was locked:
\* the answer was 0 and invalid, and the frequency is still locked.
C15_Witness ==
    /\ scall.op = "process"
    /\ scall.path = "no_estimate"
    /\ scall.had_state
    /\ scall.freq = 0
    /\ ~scall.valid
    /\ stab.last_stable_freq > 0

\* ============================================================ C16 and C17
\* Inputs of _match_frequency: frequencies, target sets in iteration order
\* (one of them empty, two with a frequency under two names), windows.
MatchFreqs == {0, 50, 110, 111, 113, 220}

MatchTargets ==
    { TargetSet("standard"), TargetSet("dropD"), << >>,
      << [name |-> "A2", freq |-> 110] >>,
      << [name |-> "A2", freq |-> 110], [name |-> "La", freq |-> 110] >>,
      << [name |-> "E2", freq |-> 82], [name |-> "La", freq |-> 110],
         [name |-> "A2", freq |-> 110] >> }

NoteWindows == {40, 300, 1400}

WithWindow(cfg, window) == [cfg EXCEPT !.nearest_note_window = window]

\* ==================================================================== C16
\* C16: nearest-note matching returns the target whose deviation has the
\* minimum absolute cents value over the whole target set, the first one in
\* iteration order among targets of equal absolute deviation; the result
\* depends only on the frequency, the target set and nearest_note_window.
C16_NearestNote ==
    \A freq \in MatchFreqs, targets \in MatchTargets, window \in NoteWindows :
        LET r == MatchFrequency(freq, 0, targets, WithWindow(settings, window))
            Dev(i) == Cents(freq, targets[i].freq)
        IN /\ r.name # "---" =>
                 \E i \in 1..Len(targets) :
                     /\ r.name = targets[i].name
                     /\ r.cents = Dev(i)
                     /\ \A j \in 1..Len(targets) : Abs(Dev(i)) <= Abs(Dev(j))
                     /\ \A j \in 1..(i - 1) : Abs(Dev(i)) < Abs(Dev(j))
           /\ (r.name = "---" /\ freq # 0) =>
                 \A i \in 1..Len(targets) : Abs(Dev(i)) > window
           /\ r = MatchFrequency(freq, 0, targets,
                                 [nearest_note_window |-> window])

\* A frame was matched to A2, the second target of the set, 16 cents sharp,
\* the first target (E2) being farther away.
C16_Witness ==
    /\ acall.op = "process"
    /\ target_frequencies = "standard"
    /\ acall.out.result.name = "A2"
    /\ acall.out.result.cents = Cents(111, 110)
    /\ Abs(Cents(111, 82)) > Abs(Cents(111, 110))

\* ==================================================================== C17
\* Deviations around the limits 5, 50 and the windows.
CentsCases ==
    {-1401, -1400, -301, -300, -51, -50, -41, -40, -5, -4, 0,
     4, 5, 40, 41, 50, 51, 300, 301, 1400, 1401}

\* C17: with c the best target's deviation and w = nearest_note_window, the
\* result is no match ("---") iff |c| > w; it also is when the frequency is
\* 0 or the target set is empty.  For |c| <= 50 (and <= w) the label is
\* on-pitch iff |c| < 5, otherwise sharp when c > 0 and flat when c < 0; for
\* 50 < |c| <= w it is too sharp (c > 0) or too flat (c < 0), the matched
\* name retained.  113 Hz against {A2: 110} is sharp, 50 Hz against it
\* with w = 300 is no match.
C17_Classification ==
    /\ \A c \in CentsCases, window \in NoteWindows :
          LET r == Classify([found |-> TRUE, name |-> "A2", cents |-> c],
                            window)
          IN /\ (r.name = "---") <=> (Abs(c) > window)
             /\ (Abs(c) <= window) => (r.name = "A2" /\ r.cents = c)
             /\ (Abs(c) <= 50 /\ Abs(c) <= window) =>
                   /\ (r.label = "OK") <=> (Abs(c) < 5)
                   /\ (Abs(c) >= 5 /\ c > 0) => r.label = "sharp"
                   /\ (Abs(c) >= 5 /\ c < 0) => r.label = "flat"
             /\ (50 < Abs(c) /\ Abs(c) <= window) =>
                   /\ c > 0 => r.label = "too_sharp"
                   /\ c < 0 => r.label = "too_flat"
    /\ \A freq \in MatchFreqs, targets \in MatchTargets,
         window \in NoteWindows :
          LET r == MatchFrequency(freq, 0, targets,
                                  WithWindow(settings, window))
          IN (freq = 0 \/ targets = << >>) => r = NoMatch
    /\ LET r == MatchFrequency(113, 0, << [name |-> "A2", freq |-> 110] >>,
                               WithWindow(settings, 300))
       IN r.name = "A2" /\ r.label = "sharp" /\ r.cents = 47
    /\ MatchFrequency(50, 0, << [name |-> "A2", freq |-> 110] >>,
                      WithWindow(settings, 300)) = NoMatch

\* A processed frame was reported sharp of A2, between 5 and 50 cents and
\* inside the window.
C17_Witness ==
    /\ acall.op = "process"
    /\ acall.out.result.name = "A2"
    /\ acall.out.result.label = "sharp"
    /\ acall.out.result.cents >= 5
    /\ acall.out.result.cents <= 50
    /\ acall.out.result.cents
          <= CfgGet(settings, "nearest_note_window", DefaultNoteWindow)

\* ============================================================= SpecSmooth
\* The cents smoothing of the stabilizer alone: smooth_cents with three
\* deviations, update_config with smoothing values inside and outside
\* 1..10 (and without the key), and reset.
SmoothCents == {-20, 10, 30}

SmoothConfigs ==
    { [yin_threshold |-> 20, smoothing |-> 0],
      [yin_threshold |-> 20, smoothing |-> 3],
      [yin_threshold |-> 20, smoothing |-> 15],
      [yin_threshold |-> 20] }

SmoothStep == SmoothCentsOver(SmoothCents)

\* update_config(config); scall.val keeps the smoothing value it read.
StabUpdateConfigStep ==
    /\ \E config \in SmoothConfigs :
          /\ stab' = StabUpdateConfig(stab, config)
          /\ scall' = [NoCall EXCEPT
                          !.op = "update_config",
                          !.val = CfgGet(config, "smoothing",
                                         DefaultSmoothing)]
    /\ UNCHANGED StabUnch

SmoothNext == SmoothStep \/ StabUpdateConfigStep \/ StabResetStep

SpecSmooth == Init /\ [][SmoothNext]_vars

\* ==================================================================== C18
\* The k-th smallest value of a sequence.
Kth(hist, k) ==
    CHOOSE x \in {hist[i] : i \in 1..Len(hist)} :
        /\ Cardinality({i \in 1..Len(hist) : hist[i] < x}) < k
        /\ Cardinality({i \in 1..Len(hist) : hist[i] <= x}) >= k

\* The median: the middle value, or the mean of the two middle values.
MiddleValue(hist) ==
    LET n == Len(hist)
    IN IF n % 2 = 1 THEN Kth(hist, (n + 1) \div 2)
       ELSE (Kth(hist, n \div 2) + Kth(hist, n \div 2 + 1)) \div 2

C19_ResultDelivery ==
    /\ [](\A t \in Threads :
            tpc[t] = "cb" => analysis_lock # t /\ tframe[t] # NoFrame)
    /\ [][\A t \in Threads :
            /\ (tpc[t] = "proc" /\ tpc'[t] \notin {"proc", "caught"})
                  => tpc'[t] = "cb" /\ tframe'[t] = tframe[t]
            /\ (tpc[t] = "cb" /\ tpc'[t] # "cb")
                  => /\ tpc'[t] \in {"check", "caught"}
                     /\ \A u \in Threads \ {t} :
                           tpc[u] = "cb" => tframe[u] >= tframe[t]]_vars

\* ==================================================================== C20
\* C20: every successful start_stream has reset the analyzer for the new
\* session before capture begins, and the first frame of the session to be
\* processed finds the analyzer as reset_state left it (zero-filled
\* windows, write pointers 0, empty remainders, stabilizer in its initial
\* state): nothing was processed since that reset.
C20_ResetOnStart ==
    /\ stream = "active" => an_epoch = epoch
    /\ \A t \in Threads :
          (tpc[t] = "proc" /\ tframe[t] = epoch /\ captured = 1)
              => an_epoch = epoch /\ ~an_dirty

\* ==================================================================== C21
\* C21: a silent frame resets the stabilizer as reset() does for its filter
\* fields: after it last_stable_freq = 0, last_valid_cents = 0,
\* cents_history is empty and consecutive_decay_frames and
\* frames_since_attack are 0, so that no frame of the note that follows the
\* silence is handled by the deep-decay branch of the jump guard because of
\* decay counted before the silence.
C21_SilenceReset ==
    \A in \in StabInputs : Silent(in) =>
        /\ StabResult(in).st.last_stable_freq = 0
        /\ StabResult(in).st.last_valid_cents = 0
        /\ StabResult(in).st.cents_history = <<>>
        /\ StabResult(in).st.consecutive_decay_frames = 0
        /\ StabResult(in).st.frames_since_attack = 0

\* ==================================================================== C22
\* C22: an update_settings call that requires a restart leaves the detector
\* running iff it was running before the call (it returns not running only
\* from the open of the stream, when the device fails to open); on a
\* stopped detector it applies the configuration and reallocates the
\* buffers without ever entering stop_stream or start_stream: no capture
\* and no analysis thread is started.
C22_RunningAcrossRestart ==
    /\ []((cop = "update" /\ ~was_running)
             => cpc \in {"upd_lock", "upd_apply"})
    /\ [][(cop = "update" /\ NeedsRestart(new_config)) =>
            /\ (cop' = "none" /\ was_running)
                  => \/ is_running' /\ stream' = "active"
                     \/ cpc = "start_open" /\ stream' # "active"
            /\ ~was_running =>
                  /\ ~is_running /\ ~is_running'
                  /\ stream' = stream /\ stream # "active"
                  /\ analysis_thread' = analysis_thread
                  /\ \A t \in Threads : ~Alive(t) => ~Alive(t)'
                  /\ cop' = "none" =>
                        /\ settings' = Merge(settings, new_config)
                        /\ ~an_dirty']_vars

\* The restart of an update_settings call made on a running detector has
\* applied the new latency mode and is about to open the stream again.
C22_Witness ==
    /\ cop = "update"
    /\ was_running
    /\ cpc = "start_open"
    /\ is_running
    /\ settings.latency_mode = "fast"
    /\ new_config = [k \in {"latency_mode"} |-> "fast"]

\* ================================================================== SpecYin
\* YinProcessor.process alone: one call on a processor and a signal drawn
\* from the sets below, the call and its return being two steps.
MaxSignalLen == 8

\* Sample values of the short signals.
YinSamples == {-1, 0, 1}

YinSignals == UNION {[1..n -> YinSamples] : n \in 0..MaxSignalLen}

\* Processors with a search range of a few lags: lags 1..3 with and without
\* the harmonic check (sample_rate / best_tau below and above 250), lags
\* 2..3 under a threshold of 0.5, and an empty search range.
YinProcessors ==
    {YinProcessorNew(12, 1, 3, 12, 20),
     YinProcessorNew(1200, 1, 300, 1200, 20),
     YinProcessorNew(12, 1, 3, 6, 50),
     YinProcessorNew(12, 1, 4, 4, 20)}

\* The high band of the guitar as apply_settings configures it by default:
\* sample rate RATE / 2, range 200 Hz to 1200 Hz, threshold 0.20.
GuitarHighBand == YinProcessorNew(RATE, 2, 200, 1200, DefaultYinThreshold)

\* 220 samples of the sine 100 * sin(2 * pi * 200 * k / 22050), k = 0..219,
\* rounded to whole numbers: 200 Hz at the sample rate of GuitarHighBand.
Sine200 == <<
    0, 6, 11, 17, 23, 28, 34, 39, 44, 49, 54,
    59, 63, 67, 72, 75, 79, 82, 86, 88, 91, 93,
    95, 97, 98, 99, 100, 100, 100, 100, 99, 98, 97,
    95, 93, 91, 89, 86, 83, 79, 76, 72, 68, 64,
    59, 55, 50, 45, 39, 34, 29, 23, 18, 12, 6,
    1, -5, -11, -16, -22, -27, -33, -38, -43, -48, -53,
    -58, -63, -67, -71, -75, -79, -82, -85, -88, -91, -93,
    -95, -96, -98, -99, -100, -100, -100, -100, -99, -98, -97,
    -95, -94, -91, -89, -86, -83, -80, -76, -73, -69, -64,
    -60, -55, -50, -45, -40, -35, -29, -24, -18, -13, -7,
    -1, 4, 10, 16, 21, 27, 32, 38, 43, 48, 53,
    58, 62, 66, 71, 75, 78, 82, 85, 88, 90, 93,
    95, 96, 98, 99, 99, 100, 100, 100, 99, 98, 97,
    96, 94, 92, 89, 87, 84, 80, 77, 73, 69, 65,
    60, 56, 51, 46, 41, 36, 30, 25, 19, 13, 8,
    2, -4, -9, -15, -21, -26, -32, -37, -42, -47, -52,
    -57, -62, -66, -70, -74, -78, -81, -84, -87, -90, -92,
    -94, -96, -97, -99, -99, -100, -100, -100, -99, -98, -97,
    -96, -94, -92, -90, -87, -84, -81, -77, -74, -70, -65,
    -61, -56, -52, -47, -41, -36, -31, -25, -20, -14, -9>>

\* A processor with the lags 1..5, given the longer two-valued signals: its
\* harmonic check finds lags to go back to.
YinLongProcessor == YinProcessorNew(12, 1, 2, 12, 20)

YinLongSignals == [1..(MaxSignalLen + 4) -> {0, 1}]

YinInputs ==
    {<<proc, signal>> : proc \in YinProcessors, signal \in YinSignals}
    \cup {<<YinLongProcessor, signal>> : signal \in YinLongSignals}
    \cup {<<GuitarHighBand, Sine200>>}

YinUnch == <<dvars, svars, an, acall, band>>

\* process(signal) is called.
YinCallStep ==
    /\ ycall.op = "none"
    /\ \E in \in YinInputs :
          ycall' = [NoYinCall EXCEPT !.op = "called", !.proc = in[1],
                                     !.signal = in[2]]
    /\ UNCHANGED YinUnch

\* The call returns; the CMNDF it computed is kept with the result.
YinProcessStep ==
    /\ ycall.op = "called"
    /\ ycall' = [ycall EXCEPT
                   !.op = "done",
                   !.cmndf = IF Len(ycall.signal) >= ycall.proc.max_period
                                    + Len(ycall.signal) \div 2
                             THEN YinCmndf(ycall.signal,
                                           ycall.proc.max_period)
                             ELSE <<>>,
                   !.ret = YinEstimate(ycall.proc, ycall.signal)]
    /\ UNCHANGED YinUnch

YinNext == YinCallStep \/ YinProcessStep

SpecYin == Init /\ [][YinNext]_vars

\* The signal is long enough for the processor.
Sufficient(call) ==
    Len(call.signal) >= call.proc.max_period + Len(call.signal) \div 2

\* ==================================================================== C23
\* C23: a signal shorter than max_period + half_chunk, the empty signal
\* included, gives the not-found result (0.0, 1.0) and raises nothing.
C23_InsufficientInput ==
    (ycall.op = "done" /\ ~Sufficient(ycall))
        => /\ ycall.ret.kind = "not_found"
           /\ ycall.ret.freq = Frac(0, 1)
           /\ ycall.ret.conf = Frac(1, 1)

\* A call returned on a signal one sample short of the required length.
C23_Witness ==
    /\ ycall.op = "done"
    /\ Len(ycall.signal) + 1
          = ycall.proc.max_period + (Len(ycall.signal) + 1) \div 2
    /\ ~Sufficient(ycall)
    /\ ycall.ret = YinNotFound

\* ==================================================================== C24
\* C24: an all-zero signal of sufficient length gives the not-found result
\* (0.0, 1.0): the division by the zero cumulative sum reports no lag.
C24_AllZero ==
    (/\ ycall.op = "done"
     /\ Sufficient(ycall)
     /\ \A i \in 1..Len(ycall.signal) : ycall.signal[i] = 0)
        => /\ ycall.ret.kind = "not_found"
           /\ ycall.ret.freq = Frac(0, 1)
           /\ ycall.ret.conf = Frac(1, 1)

\* ==================================================================== C25
\* C25: for a pure sine at a frequency inside the band's range (here 200 Hz,
\* the lower end of the guitar's high band) the estimator returns a
\* frequency within 1% of it and a confidence below the threshold.
C25_SineAccuracy ==
    (ycall.op = "done" /\ ycall.proc = GuitarHighBand /\ ycall.signal = Sine200)
        => /\ ycall.ret.kind = "found"
           /\ 100 * Abs(ycall.ret.freq.num - 200 * ycall.ret.freq.den)
                 <= 200 * ycall.ret.freq.den
           /\ FracLess(ycall.ret.conf, Frac(ycall.proc.threshold, 100))

\* ==================================================================== C26
\* Non-silent, not an attack, at most 5 decay frames as the jump guard reads
\* them, a stable frequency is locked and the frame has an estimate.
SustainFrame(in) ==
    /\ ~Silent(in)
    /\ ~IsAttack(stab, in.amplitude, in.threshold_rms)
    /\ DecayAt(in) <= 5
    /\ stab.last_stable_freq > 0
    /\ in.raw_freq > 0

C27_DecayCounter ==
    \A in \in StabInputs :
        /\ StabResult(in).st.consecutive_decay_frames =
              IF /\ 10 * in.amplitude > 12 * stab.prev_amplitude
                 /\ in.amplitude > MaxOf(in.threshold_rms, 1) * 10
              THEN 0
              ELSE IF in.amplitude < stab.prev_amplitude
              THEN stab.consecutive_decay_frames + 1
              ELSE stab.consecutive_decay_frames
        /\ StabResult(in).st.prev_amplitude = in.amplitude

\* Three frames in a row fell in amplitude, the last one to 50, and a frame
\* of a further call would count from there.
C27_Witness ==
    /\ scall.op = "process"
    /\ stab.consecutive_decay_frames = 3
    /\ stab.prev_amplitude = 50
    /\ stab.frames_since_attack = 3

\* ==================================================================== C28
\* The band as it would stand had the raw stream since the last allocation
\* or reset been given in a single frame.
InOneFrame(b) ==
    BandFeed(BandNew(Len(b.buf) \div 2, b.dec, b.base), b.fed - b.base)

\* The i-th raw sample of the stream since the last allocation or reset.
RawSample(b, i) == 2 * (b.base + i)

\* The sum of the raw samples [(k-1)*D + 1, k*D] of that stream, the k-th
\* block of D = dec samples.
RECURSIVE BlockSum(_, _, _)
BlockSum(b, k, i) ==
    IF i = 0 THEN 0
    ELSE RawSample(b, (k - 1) * b.dec + i) + BlockSum(b, k, i - 1)

\* C28: decimation does not depend on the framing. The window and the
\* carried samples are those a single frame holding the whole raw stream
\* since the reset gives; the k-th decimated sample in the window is the
\* mean of the k-th block of D raw samples; fewer than D raw samples are
\* carried, and they are the ones after the last whole block.
C28_FramingIndependent ==
    LET N == Len(band.buf) \div 2
        arrived == (band.fed - band.base) \div band.dec
    IN /\ Len(band.rem) < band.dec
       /\ band.rem = [i \in 1..(band.fed - band.base - arrived * band.dec) |->
                         RawSample(band, arrived * band.dec + i)]
       /\ band.op = "feed" =>
             /\ band.out = InOneFrame(band).out
             /\ band.rem = InOneFrame(band).rem
             /\ \A i \in 1..N : arrived - N + i >= 1 =>
                   band.out[i] * band.dec
                       = BlockSum(band, arrived - N + i, band.dec)

\* Five raw samples arrived since the reset, in more than one frame (no
\* frame has five samples); decimated by 2, two means are in the window
\* and one raw sample is carried.
C28_Witness ==
    /\ band.op = "feed"
    /\ band.dec = 2
    /\ band.fed - band.base = 5
    /\ band.base > 0
    /\ Len(band.rem) = 1
    /\ band.out[Len(band.out)] = 2 * band.base + 7

\* ==================================================================== C29
\* The CMNDF value of a call at a lag, and the order on the values that
\* are numbers.
ValueAt(call, t) == call.cmndf[t + 1]
Below(v, w) == FracLess(v, w)

\* The lags of the search range whose value is below the threshold.
BelowThreshold(call) ==
    {t \in call.proc.min_period .. (call.proc.max_period - 1) :
        Below(ValueAt(call, t), Frac(call.proc.threshold, 100))}

\* The lags of the search range that hold its least value.
GlobalMinima(call) ==
    {t \in call.proc.min_period .. (call.proc.max_period - 1) :
        /\ ValueAt(call, t).den # 0
        /\ \A u \in call.proc.min_period .. (call.proc.max_period - 1) :
              ~Below(ValueAt(call, u), ValueAt(call, t))}

\* C29: the lag picked from the CMNDF is the first lag >= min_period below
\* the threshold, advanced while the next value is strictly smaller (up to
\* the local minimum or max_period - 1); with no lag below the threshold it
\* is the global minimum of the range, and the result is not-found when
\* that minimum is >= 1.0 or the range is empty.
C29_LagSelection ==
    (ycall.op = "done" /\ Sufficient(ycall)) =>
        LET first == CHOOSE t \in BelowThreshold(ycall) :
                         \A u \in BelowThreshold(ycall) : t <= u
            selected == ycall.ret.selected
        IN IF BelowThreshold(ycall) # {}
           THEN /\ ycall.ret.kind = "found"
                /\ selected >= first
                /\ \A u \in first .. (selected - 1) :
                      Below(ValueAt(ycall, u + 1), ValueAt(ycall, u))
                /\ \/ selected = ycall.proc.max_period - 1
                   \/ ~Below(ValueAt(ycall, selected + 1),
                             ValueAt(ycall, selected))
           ELSE IF GlobalMinima(ycall) = {}
           THEN ycall.proc.min_period >= ycall.proc.max_period
                   => ycall.ret = YinNotFound
           ELSE IF \E t \in GlobalMinima(ycall) :
                      ~Below(ValueAt(ycall, t), FracOne)
           THEN ycall.ret = YinNotFound
           ELSE /\ ycall.ret.kind = "found"
                /\ selected \in GlobalMinima(ycall)

\* The selection rule of C29 over the calls whose search range holds
\* numbers only (no lag at which the cumulative sum is still 0).
C29_OnNumbers ==
    (\A t \in ycall.proc.min_period .. (ycall.proc.max_period - 1) :
        t + 1 \in DOMAIN ycall.cmndf => ycall.cmndf[t + 1].den # 0)
        => C29_LagSelection

\* ==================================================================== C30
\* C30: at most one analysis thread is alive and consuming from the queue
\* at any time: no two threads have passed the loop test and stand at
\* audio_queue.get together.
C30_SingleConsumer ==
    \A t, u \in Threads :
        (tpc[t] = "get" /\ tpc[u] = "get") => t = u

\* ==================================================================== C31
\* Positions at which a thread waits for analysis_lock.
CtlLockWait == cpc \in {"start_lock", "upd_lock", "tune_lock"}

\* The holder of analysis_lock is inside an analyzer operation and nowhere
\* else: not at the queue, its mutex, the result callback or a join; and
\* the step that ends the operation and releases the lock can be taken.
LockDiscipline ==
    /\ \A t \in Threads :
          /\ analysis_lock = t => tpc[t] = "proc" /\ ENABLED ProcessFrame(t)
          /\ tpc[t] \in {"get", "cb", "check", "caught", "dead"}
                => analysis_lock # t
    /\ analysis_lock = Controller =>
          /\ CtlInAnalyzer
          /\ ENABLED (StartReset \/ UpdateApply \/ TuningApply)
    /\ cpc \in {"start_clear", "stop_join", "stop_release", "start_thread",
                "start_open", "idle"}
          => analysis_lock # Controller

\* C31: deadlock freedom: analysis_lock is never held while its holder
\* waits on the queue, on the queue's mutex, on the result callback or on
\* a thread join, and no thread waits for ever: a thread waiting for the
\* lock gets it, a control call waiting for the lock or at the join goes
\* on.
C31_DeadlockFreedom ==
    /\ []LockDiscipline
    /\ \A t \in Threads : (tpc[t] = "acq") ~> (tpc[t] = "proc")
    /\ CtlLockWait ~> ~CtlLockWait
    /\ (cpc = "stop_join") ~> (cpc # "stop_join")

\* An analysis thread and a control call wait for the lock together while
\* another analysis thread holds it.
C31_Witness ==
    \E t, u \in Threads :
        /\ tpc[t] = "acq"
        /\ analysis_lock = u
        /\ tpc[u] = "proc"
        /\ CtlLockWait

\* ==================================================================== C32
\* C32: no stale frames across sessions: a frame accepted into the queue
\* in one session is never analysed after the start_stream of a later
\* session has reset the analyzer, and once start_stream has emptied the
\* queue it holds frames of the new session only.
C32_NoStaleFrames ==
    /\ \A t \in Threads : tpc[t] = "proc" => tframe[t] >= an_epoch
    /\ cpc \in {"start_thread", "start_open"} => audio_queue = <<>>
    /\ \A i \in 1..Len(audio_queue) :
          (cpc \notin {"start_lock", "start_reset", "start_clear"})
              => (is_running => audio_queue[i] = epoch)

\* ==================================================================== C33
\* C33: when the opening of the capture stream fails inside start_stream,
\* the call leaves nothing running: no analysis thread is alive,
\* _is_running is false and the detector is as stop_stream leaves it (stop
\* signal set, no stream, no PyAudio instance).
C33_FailedStartClean ==
    [][(cpc = "start_open" /\ cpc' # "start_open" /\ stream' # "active") =>
          /\ ~is_running'
          /\ \A t \in Threads : ~Alive(t)'
          /\ stop_event'
          /\ stream' = "none"
          /\ ~pa']_vars

\* ==================================================================== C34
\* C34: start_stream on a detector whose stream is active is a no-op: the
\* call returns having started no thread, reset nothing of the analyzer,
\* left the queue, the stop signal, _is_running and the stream as they
\* were; and a capture callback that finds the detector not running
\* enqueues nothing.
C34_StartNoOp ==
    [][/\ (cpc = "start_enter" /\ stream = "active" /\ cpc' # "start_enter")
            => /\ cpc' = "idle"
               /\ tpc' = tpc
               /\ analysis_thread' = analysis_thread
               /\ an_dirty' = an_dirty /\ an_epoch' = an_epoch
               /\ audio_queue' = audio_queue
               /\ stop_event' = stop_event
               /\ is_running' = is_running
               /\ UNCHANGED <<stream, pa, epoch, analysis_lock, settings,
                              target_frequencies, tframe>>
       /\ (captured' = captured + 1 /\ ~is_running)
            => audio_queue' = audio_queue /\ cb_result' = "complete"]_vars

\* start_stream was called again on a running detector with an active
\* stream, a frame in the queue and a live analysis thread.
C34_Witness ==
    /\ cop = "start"
    /\ cpc = "start_enter"
    /\ stream = "active"
    /\ is_running
    /\ ~stop_event
    /\ audio_queue # <<>>
    /\ analysis_thread # NoThread
    /\ Alive(analysis_thread)
    /\ start_ret = "None"

\* ==================================================================== C35
\* C35: double-buffer invariant: in every reachable state of a band the two
\* halves of its buffer are equal (buffer[i] = buffer[i + N], N half the
\* buffer length), the write pointer satisfies 0 <= ptr < N and the
\* carried remainder holds fewer raw samples than the decimation factor;
\* after any sequence of updates, resets and reallocations, updates of
\* more than N decimated samples included.
C35_DoubleBuffer ==
    LET N == Len(band.buf) \div 2
    IN /\ Len(band.buf) = 2 * N
       /\ \A i \in 1..N : band.buf[i] = band.buf[i + N]
       /\ 0 <= band.ptr /\ band.ptr < N
       /\ Len(band.rem) < band.dec

\* Seven raw samples went into a window of two at decimation 2 since the
\* last reset (more blocks than the window holds when they come as one
\* frame); one raw sample is carried and the buffer holds the two newest
\* block means in both halves.
C35_Witness ==
    /\ band.op = "feed"
    /\ band.dec = 2
    /\ Len(band.buf) = 4
    /\ band.base > 0
    /\ band.fed - band.base = 7
    /\ Len(band.rem) = 1
    /\ band.ptr = 1
    /\ band.buf[1] # 0
    /\ band.buf[1] = band.buf[3] /\ band.buf[2] = band.buf[4]

\* ==================================================================== C36
\* C36: after construction and after any sequence of update_settings calls
\* the stabilizer's yin_threshold equals the yin_threshold the analyzer
\* uses in the validity test of the fusion; hence whatever frame comes
\* next, a raw frequency > 0 handed to the stabilizer has a confidence
\* below the stabilizer's yin_threshold, and on a non-silent attack frame
\* the fused estimate is accepted as the stable frequency.
C36_ThresholdConsistency ==
    /\ stab.yin_threshold =
           CfgGet(settings, "yin_threshold", DefaultYinThreshold)
    /\ \A frame \in Frames :
          LET r == AnProcess(an, stab, settings, target_frequencies, frame)
              threshold_rms == CfgGet(settings, "threshold",
                                      DefaultRmsThreshold)
          IN /\ r.used.yin_fusion = r.used.yin_stab
             /\ r.raw.freq > 0 =>
                   /\ r.raw.conf < stab.yin_threshold
                   /\ (/\ IsAttack(stab, frame.amplitude, threshold_rms)
                       /\ ~(frame.amplitude < SilenceFloor(threshold_rms)))
                         => r.stab.last_stable_freq = r.raw.freq

\* After an update of yin_threshold to 0.10 a frame gave a fused estimate,
\* which the stabilizer, holding the same threshold, accepted.
C36_Witness ==
    /\ acall.op = "process"
    /\ acall.raw.freq > 0
    /\ acall.raw.conf < 10
    /\ settings.yin_threshold = 10
    /\ stab.yin_threshold = 10
    /\ stab.last_stable_freq = acall.raw.freq

\* ==================================================================== C37
\* C37: provenance of the locked frequency: last_stable_freq is 0 or a raw
\* frequency that came in with a frame; whatever frame comes next, it
\* changes last_stable_freq only to that frame's raw frequency, and only
\* if the frame is not silent, its raw frequency is > 0 and its confidence
\* is below yin_threshold, or to 0, and only if the frame is silent;
\* smooth_cents leaves it alone and reset() sets it to 0.
C37_Provenance ==
    /\ stab.last_stable_freq \in RawFreqs
    /\ \A in \in StabInputs :
          StabResult(in).st.last_stable_freq # stab.last_stable_freq =>
              \/ /\ StabResult(in).st.last_stable_freq = 0
                 /\ Silent(in)
              \/ /\ StabResult(in).st.last_stable_freq = in.raw_freq
                 /\ ~Silent(in)
                 /\ in.raw_freq > 0
                 /\ in.confidence < stab.yin_threshold
    /\ \A cents \in CentsValues :
          StabSmoothCents(stab, cents).st.last_stable_freq
              = stab.last_stable_freq
    /\ StabReset(stab).last_stable_freq = 0

\* The first estimate after silence was taken as the stable frequency: its
\* confidence was below yin_threshold.
C37_Witness ==
    /\ scall.op = "process"
    /\ scall.path = "first"
    /\ scall.confident
    /\ scall.valid
    /\ stab.last_stable_freq = scall.freq
    /\ stab.last_stable_freq > 0

\* ==================================================================== C38
\* Updates update_settings may be called with: those of AnConfigUpdates,
\* smoothing values outside 1..10, the note window, two keys at once.
UpdateProbes ==
    AnConfigUpdates \cup
    { [k \in {"smoothing"} |-> 0],
      [k \in {"smoothing"} |-> 15],
      [k \in {"nearest_note_window"} |-> 100],
      [k \in {"yin_threshold", "smoothing"} |->
          IF k = "smoothing" THEN 10 ELSE 15] }

\* C38: whatever update_settings call comes next, it replaces the cents
\* FIFO by an empty one whose capacity is the smoothing setting clamped to
\* 1..10; when the update holds no restart key it leaves last_valid_cents,
\* last_stable_freq, prev_amplitude, both counters and the window buffers,
\* pointers and remainders unchanged.
C38_UpdateKeepsState ==
    \A config \in UpdateProbes :
        LET r == AnUpdateSettings(an, stab, settings, config)
            smoothing == IF "smoothing" \in DOMAIN config
                         THEN config["smoothing"] ELSE settings["smoothing"]
            capacity == IF smoothing < 1 THEN 1
                        ELSE IF smoothing > 10 THEN 10 ELSE smoothing
            restart == \/ "latency_mode" \in DOMAIN config
                       \/ "instrument_type" \in DOMAIN config
                       \/ "high_quality" \in DOMAIN config
        IN /\ r.stab.cents_history = <<>>
           /\ r.stab.maxlen = capacity
           /\ ~restart =>
                 /\ r.stab.last_valid_cents = stab.last_valid_cents
                 /\ r.stab.last_stable_freq = stab.last_stable_freq
                 /\ r.stab.prev_amplitude = stab.prev_amplitude
                 /\ r.stab.frames_since_attack = stab.frames_since_attack
                 /\ r.stab.consecutive_decay_frames
                        = stab.consecutive_decay_frames
                 /\ r.an.buf_low = an.buf_low /\ r.an.buf_high = an.buf_high
                 /\ r.an.ptr_low = an.ptr_low /\ r.an.ptr_high = an.ptr_high
                 /\ r.an.rem_low = an.rem_low /\ r.an.rem_high = an.rem_high

\* A smoothing-only update on an analyzer that was tracking a note: the
\* history is empty with capacity 2, the held cents, the locked frequency
\* and the written windows are still there.
C38_Witness ==
    /\ acall.op = "update_settings"
    /\ acall.upd = [k \in {"smoothing"} |-> 2]
    /\ acall.written
    /\ stab.cents_history = <<>>
    /\ stab.maxlen = 2
    /\ stab.last_valid_cents # 0
    /\ stab.last_stable_freq > 0
    /\ stab.prev_amplitude > 0
    /\ ~an.buf_low.zero

\* ==================================================================== C39
\* Frames process may be given next: those of Frames and loud frames
\* without periodicity at an amplitude of exactly 10 and 20 times the RMS
\* threshold in force.
ProbeFrames ==
    Frames \cup
    { [len |-> 2048, amplitude |-> 100, dips |-> << >>],
      [len |-> 2048, amplitude |-> 200, dips |-> << >>] }

\* C39: whatever frame comes next: on a silent frame process reports "---"
\* and no cents; on a non-silent frame for which the stabilizer reports
\* invalid it reports the held last_valid_cents iff that value is not 0 and
\* the RMS is above threshold * 10, else no cents, and leaves cents_history
\* as it was; a new value enters cents_history only on a frame with a
\* valid stabilized frequency that lies within nearest_note_window of a
\* target.
C39_ReportedCents ==
    \A frame \in ProbeFrames :
        LET r == AnProcess(an, stab, settings, target_frequencies, frame)
            threshold_rms == settings.threshold
            silent == frame.amplitude < MaxOf(threshold_rms, 1) * 10
            sp == StabProcess(stab, r.raw.freq, r.raw.conf, frame.amplitude,
                              threshold_rms)
            targets == TargetSet(target_frequencies)
        IN /\ silent =>
                 /\ r.out.result.name = "---"
                 /\ ~r.out.cents.some
           /\ (~silent /\ ~sp.valid) =>
                 /\ r.out.cents.some
                       <=> /\ stab.last_valid_cents # 0
                           /\ frame.amplitude > threshold_rms * 10
                 /\ r.out.cents.some
                       => r.out.cents.val = stab.last_valid_cents
                 /\ r.stab.cents_history = stab.cents_history
           /\ (/\ r.stab.cents_history # stab.cents_history
               /\ r.stab.cents_history # <<>>) =>
                 /\ ~silent
                 /\ sp.valid /\ sp.freq > 0
                 /\ \E i \in 1..Len(targets) :
                       Abs(Cents(sp.freq, targets[i].freq))
                           <= settings.nearest_note_window
                 /\ r.out.cents.some

\* A loud frame without an estimate followed a matched note: the held
\* cents were reported and the history was left alone.
C39_Witness ==
    /\ acall.op = "process"
    /\ acall.raw.freq = 0
    /\ acall.out.cents.some
    /\ acall.out.cents.val = stab.last_valid_cents
    /\ stab.last_valid_cents # 0
    /\ stab.cents_history # <<>>

\* ==================================================================== C40
\* The restart settings: instrument, latency mode, quality.
Instruments == {"guitar", "bass"}
LatencyModes == {"fast", "normal", "stable"}
Qualities == BOOLEAN

\* The settings with the three restart keys given.
WithBands(cfg, instr, mode, hq) ==
    [cfg EXCEPT !.instrument_type = instr, !.latency_mode = mode,
                !.high_quality = hq]

\* A band of N samples whose estimator searches lags up to max_period has
\* the length process asks for.
WindowSufficient(N, max_period) == N >= max_period + N \div 2

\* C40: window sufficiency: for every instrument, latency mode and quality
\* setting, each band's window length N = floor(base_samples / decimation)
\* and its estimator's max_period = floor((44100 / decimation) / min_freq)
\* satisfy N >= max_period + floor(N / 2); the bands the analyzer holds
\* satisfy it in every reachable state, and the window handed to an
\* estimator is never too short for it.
C40_WindowSufficiency ==
    /\ WindowSufficient(an.buf_low.size \div 2, an.proc_low.max_period)
    /\ WindowSufficient(an.buf_high.size \div 2, an.proc_high.max_period)
    /\ \A instr \in Instruments, mode \in LatencyModes, hq \in Qualities :
          LET r == ApplySettings(an, stab,
                                 WithBands(settings, instr, mode, hq),
                                 TRUE).an
              base_samples == CASE mode = "fast" -> 8192
                                [] mode = "normal" -> 16384
                                [] mode = "stable" -> 32768
              min_low == IF instr = "bass" THEN 20 ELSE 30
              min_high == IF instr = "bass" THEN 100 ELSE 200
              N_low == base_samples \div r.dec_low
              N_high == base_samples \div r.dec_high
          IN /\ r.buf_low.size = 2 * N_low
             /\ r.buf_high.size = 2 * N_high
             /\ r.proc_low.max_period = 44100 \div (r.dec_low * min_low)
             /\ r.proc_high.max_period = 44100 \div (r.dec_high * min_high)
             /\ WindowSufficient(N_low, r.proc_low.max_period)
             /\ WindowSufficient(N_high, r.proc_high.max_period)
             /\ \A frame \in Frames :
                   /\ WindowSufficient(
                          UpdateBuffer(frame.len, 0, r.buf_low, 0,
                                       r.dec_low).window,
                          r.proc_low.max_period)
                   /\ WindowSufficient(
                          UpdateBuffer(frame.len, 0, r.buf_high, 0,
                                       r.dec_high).window,
                          r.proc_high.max_period)

\* The tightest case, bass in fast mode (a low-band window of 819 samples
\* for lags up to 220): a frame was analysed and the low band found a
\* pitch.
C40_Witness ==
    /\ acall.op = "process"
    /\ settings.instrument_type = "bass"
    /\ settings.latency_mode = "fast"
    /\ an.dec_low = 10
    /\ an.buf_low.size = 2 * 819
    /\ an.proc_low.max_period = 220
    /\ acall.low.freq > 0

====
